---- MODULE Spec2Model ----
(***************************************************************************)
(* Model of unifi-access-hubitat-middleware: the two webhook ingest        *)
(* handlers, the signature verifier, the event router and the idempotent   *)
(* assertion primitives against the hub and the access controller.         *)
(*                                                                         *)
(* Text (headers, hex digests, decimal timestamps) is modelled as a        *)
(* sequence of one-character strings, so that splitting, integer parsing   *)
(* and hex decoding are computed the way the Go library computes them.     *)
(***************************************************************************)
EXTENDS Integers, Sequences, FiniteSets, Bags, TLC

VARIABLES
    sigIn,      \* verifier under test: [header, payload, secret]
    sigOut,     \* verifier under test: "pending" or the error validatePayload returned
    tokenName,  \* name under which the middleware's API key is registered at the controller
    hub,        \* hub device id -> current value of the device's attribute
    uacRule,    \* controller door id -> type of the door's lock rule
    uacRelay,   \* controller door id -> door_lock_relay_status
    tasks,      \* the per-event goroutines in flight, a bag of task records
    wg,         \* sync.WaitGroup counter shared by both handlers
    resp,       \* the HTTP response a webhook handler wrote last
    inbox,      \* endpoints under test: the requests on their way, in order of arrival
    req,        \* endpoints under test: the request that resp answers
    eqIn,       \* equality helpers under test: [a, b, ma, mb]
    eqOut,      \* equality helpers under test: [done, slices, maps]
    webhooks,   \* controller: the registered webhook endpoints, in the order it lists them
    reg,        \* assertUacWebhookExists: position, calls made, result
    proc,       \* main: position, exit status, listener, cancellation, shutdown
    poll,       \* pollUacStates: position, door list, observation table, counters
    uacDps      \* controller door id -> door_position_status

bootVars == <<eqIn, eqOut, webhooks, reg, proc, poll, uacDps>>

vars == <<sigIn, sigOut, tokenName, hub, uacRule, uacRelay, tasks, wg, resp, inbox, req,
          bootVars>>

sigVars == <<sigIn, sigOut, bootVars>>
inVars  == <<sigIn, sigOut, inbox, req, bootVars>>
sysVars == <<tokenName, hub, uacRule, uacRelay, tasks, wg, resp>>

(***************************************************************************)
(* Bounds of the model.                                                    *)
(***************************************************************************)
\* per-event goroutines that can be in flight at once
MaxTasks == 2
\* comma-separated elements of a Signature header drawn for the verifier
MaxPairs == 2
\* bytes of a digest (sha256.Size is 32; the model keeps the digest short)
DigestLen == 2

(***************************************************************************)
(* Text helpers: strings.Split, strconv.ParseInt, fmt %d, encoding/hex.    *)
(***************************************************************************)
Digits == {"0", "1", "2", "3", "4", "5", "6", "7", "8", "9"}

HexLower == <<"0", "1", "2", "3", "4", "5", "6", "7", "8", "9",
              "a", "b", "c", "d", "e", "f">>
HexUpper == <<"0", "1", "2", "3", "4", "5", "6", "7", "8", "9",
              "A", "B", "C", "D", "E", "F">>

RECURSIVE Split(_, _)
\* strings.Split(s, sep) for a one-character separator: Split("", ",") is [""]
Split(s, sep) ==
    IF \A i \in 1..Len(s) : s[i] # sep
    THEN <<s>>
    ELSE LET k == CHOOSE i \in 1..Len(s) :
                       s[i] = sep /\ \A j \in 1..(i - 1) : s[j] # sep
         IN  <<SubSeq(s, 1, k - 1)>> \o Split(SubSeq(s, k + 1, Len(s)), sep)

RECURSIVE StripZeros(_)
StripZeros(d) ==
    IF Len(d) > 1 /\ d[1] = "0" THEN StripZeros(Tail(d)) ELSE d

\* strconv.ParseInt(s, 10, 64): optional sign, then at least one decimal digit.
\* The value is kept as sign and magnitude (decimal digits without leading
\* zeros), which has no width limit; the headers drawn stay far below 2^63.
ParseInt(s) ==
    LET signed == s # <<>> /\ s[1] \in {"+", "-"}
        body   == IF signed THEN Tail(s) ELSE s
        ok     == body # <<>> /\ \A i \in 1..Len(body) : body[i] \in Digits
        mag    == StripZeros(body)
    IN  IF ~ok THEN [ok |-> FALSE, val |-> [neg |-> FALSE, mag |-> <<"0">>]]
        ELSE [ok  |-> TRUE,
              val |-> [neg |-> signed /\ s[1] = "-" /\ mag # <<"0">>, mag |-> mag]]

\* fmt.Sprintf("%d", t.Unix())
FormatInt(v) == (IF v.neg THEN <<"-">> ELSE <<>>) \o v.mag

\* time.Time{}.Unix(): the timestamp of a header that carries no t pair
ZeroTime ==
    [neg |-> TRUE, mag |-> <<"6", "2", "1", "3", "5", "5", "9", "6", "8", "0", "0">>]

IsHex(c) == \E i \in 1..16 : HexLower[i] = c \/ HexUpper[i] = c
HexVal(c) == (CHOOSE i \in 1..16 : HexLower[i] = c \/ HexUpper[i] = c) - 1

\* hex.DecodeString: fails on an odd length or a character that is no hex digit
DecodeString(s) ==
    IF Len(s) % 2 = 1 \/ \E i \in 1..Len(s) : ~IsHex(s[i])
    THEN [ok |-> FALSE, bytes |-> <<>>]
    ELSE [ok    |-> TRUE,
          bytes |-> [i \in 1..(Len(s) \div 2) |->
                        16 * HexVal(s[2 * i - 1]) + HexVal(s[2 * i])]]

\* hex.EncodeToString: two lower-case digits per byte
EncodeToString(b) ==
    [i \in 1..(2 * Len(b)) |->
        IF i % 2 = 1 THEN HexLower[(b[(i + 1) \div 2] \div 16) + 1]
                     ELSE HexLower[(b[i \div 2] % 16) + 1]]

\* the same digits in upper case (what a sender may write; DecodeString accepts both)
ToUpper(s) ==
    [i \in 1..Len(s) |-> IF IsHex(s[i]) THEN HexUpper[HexVal(s[i]) + 1] ELSE s[i]]

RECURSIVE Join(_, _)
\* strings.Join(elems, sep)
Join(elems, sep) ==
    IF Len(elems) = 0 THEN <<>>
    ELSE IF Len(elems) = 1 THEN elems[1]
    ELSE elems[1] \o <<sep>> \o Join(Tail(elems), sep)

RECURSIVE SetToSeq(_)
SetToSeq(S) ==
    IF S = {} THEN <<>>
    ELSE LET x == CHOOSE y \in S : TRUE IN <<x>> \o SetToSeq(S \ {x})

(***************************************************************************)
(* Configuration: the door registry (appConfig.Doors) and the identities.  *)
(***************************************************************************)
\* a nil *string: the door has no lock device configured
NoLock == "nil"

\* appConfig.Doors, an ordered list; every hub device id belongs to one slot
\* of one door (spec section 3, Door invariant)
Doors ==
    << [UacID |-> "door-1", HubitatContactID |-> "c1",
        HubitatLockID |-> "l1", HubitatSwitchID |-> "s1"],
       [UacID |-> "door-2", HubitatContactID |-> "c2",
        HubitatLockID |-> NoLock, HubitatSwitchID |-> "s2"] >>

ContactDevs == {Doors[i].HubitatContactID : i \in DOMAIN Doors}
LockDevs    == {Doors[i].HubitatLockID : i \in DOMAIN Doors} \ {NoLock}
SwitchDevs  == {Doors[i].HubitatSwitchID : i \in DOMAIN Doors}
HubDevs     == ContactDevs \cup LockDevs \cup SwitchDevs
DoorIDs     == {Doors[i].UacID : i \in DOMAIN Doors}

\* the actor name handleUacEvent compares with, and the name the README proposes
MiddlewareName == "unifi-access-hubitat-middleware"
\* README, Enable API Access: the key may carry this "or any name you prefer"
TokenNames == {MiddlewareName, "my-api-key"}

\* appConfig.Server.AuthToken, and a token a stranger presents
AuthToken == "auth-token"
Tokens    == {AuthToken, "wrong-token", ""}

\* the secret the controller returned for the registered webhook endpoint,
\* and a secret a forger may sign with
RegisteredSecret == "whsec-1"
Secrets == {RegisteredSecret, "whsec-2"}

\* getDoorByUacID: index of the first door with that controller id, 0 if none
getDoorByUacID(uacID) ==
    IF \E i \in DOMAIN Doors : Doors[i].UacID = uacID
    THEN CHOOSE i \in DOMAIN Doors :
             Doors[i].UacID = uacID /\ \A j \in 1..(i - 1) : Doors[j].UacID # uacID
    ELSE 0

\* a lookup that takes any device id for a device of the door
MatchesAnything(d, hubitatID) == TRUE

\* the three comparisons getDoorByHubitatID makes for a door
DoorMatches(d, hubitatID) ==
    \/ d.HubitatContactID = hubitatID
    \/ (d.HubitatLockID # NoLock /\ d.HubitatLockID = hubitatID)
    \/ d.HubitatSwitchID = hubitatID

\* slot checks that take a contact device for a switch
SlotOfNoContact(d, hubitatID) ==
    IF d.HubitatLockID # NoLock /\ d.HubitatLockID = hubitatID THEN "lock"
    ELSE "switch"

\* the slot checks of one loop iteration, in the order of the code
SlotOf(d, hubitatID) ==
    IF d.HubitatContactID = hubitatID THEN "contact"
    ELSE IF d.HubitatLockID # NoLock /\ d.HubitatLockID = hubitatID THEN "lock"
    ELSE "switch"

\* getDoorByHubitatID: the first door one of whose slots holds the id
getDoorByHubitatID(hubitatID) ==
    IF \E i \in DOMAIN Doors : DoorMatches(Doors[i], hubitatID)
    THEN LET i == CHOOSE k \in DOMAIN Doors :
                      /\ DoorMatches(Doors[k], hubitatID)
                      /\ \A j \in 1..(k - 1) : ~DoorMatches(Doors[j], hubitatID)
         IN  [found |-> TRUE, door |-> i, deviceType |-> SlotOf(Doors[i], hubitatID)]
    ELSE [found |-> FALSE, door |-> 0, deviceType |-> ""]

(***************************************************************************)
(* Events and request bodies.                                              *)
(***************************************************************************)
NoUacEvent ==
    [event |-> "", dataOK |-> FALSE, loc |-> "", actorType |-> "", actorName |-> "",
     result |-> "", eventType |-> "", status |-> ""]

\* location ids an event may carry: the configured doors and an unknown one
UacLocs == DoorIDs \cup {"door-x"}

Actors ==
    { [type |-> "user", name |-> "someone"],
      [type |-> "user", name |-> MiddlewareName],
      [type |-> "open-api", name |-> MiddlewareName],
      [type |-> "open-api", name |-> "my-api-key"] }

UnlockEvents ==
    { [NoUacEvent EXCEPT !.event = "access.door.unlock", !.dataOK = TRUE, !.loc = l,
                         !.actorType = a.type, !.actorName = a.name, !.result = r] :
        l \in UacLocs, a \in Actors, r \in {"Access Granted", "Access Denied"} }

DpsEvents ==
    { [NoUacEvent EXCEPT !.event = "access.device.dps_status", !.dataOK = TRUE,
                         !.loc = l, !.eventType = t, !.status = s] :
        l \in UacLocs, t \in {"dps_change", "dps_alarm"},
        s \in {"open", "close", "none"} }

\* an event of a kind the router does not know, and one whose data is no object
OtherEvents ==
    { [NoUacEvent EXCEPT !.event = "access.doorbell.incoming", !.dataOK = TRUE],
      [NoUacEvent EXCEPT !.event = "access.door.unlock"] }

UacEvents == UnlockEvents \cup DpsEvents \cup OtherEvents

NoHubEvent == [deviceId |-> "", value |-> ""]

HubEvents ==
    { [deviceId |-> d, value |-> v] :
        d \in HubDevs \cup {"dev-x"},
        v \in {"on", "off", "locked", "unlocked", "jammed"} }

\* A request body: text that is no JSON at all, a JSON value that is no
\* object (it does not decode into the envelope struct), or an object.
UacBodies ==
    { [json |-> "malformed", event |-> NoUacEvent],
      [json |-> "array", event |-> NoUacEvent] }
    \cup { [json |-> "object", event |-> e] : e \in UacEvents }

HubBodies ==
    { [json |-> "malformed", content |-> NoHubEvent],
      [json |-> "array", content |-> NoHubEvent] }
    \cup { [json |-> "object", content |-> e] : e \in HubEvents }

\* json.Unmarshal(payload, &json.RawMessage): any well-formed JSON text passes
IsJSON(body) == body.json # "malformed"

\* json.Unmarshal(raw, &WebhookEvent): the text must be a JSON object
DecodesToEnvelope(body) == body.json = "object"

(***************************************************************************)
(* Signature verifier (internal/uac/events.go).                            *)
(***************************************************************************)
ErrInvalidHeader    == "webhook has invalid Signature header"
ErrNoValidSignature == "webhook had no valid signature"
ErrNotSigned        == "webhook has no Signature header"
NoError             == "nil"
signingVersion      == <<"v", "1">>

\* Headers are built from these elements; the timestamps they can carry
TimestampTexts ==
    { <<"7">>, <<"0", "7">>, <<"+", "7">>, <<"8">>, <<"x">>, <<>> }

\* every Unix time a header of the model can parse to, and the zero time
Timestamps ==
    {ParseInt(t).val : t \in {u \in TimestampTexts : ParseInt(u).ok}} \cup {ZeroTime}

\* the bytes HMAC runs over: "<timestamp>." followed by the payload
MacMessage(t, payload) == [prefix |-> FormatInt(t) \o <<".">>, payload |-> payload]

\* the keys, message prefixes and payloads of the model, each in a fixed order
MacKeys     == SetToSeq(Secrets)
MacPrefixes == SetToSeq({FormatInt(t) \o <<".">> : t \in Timestamps})
MacPayloads == SetToSeq(UacBodies)

IndexOf(seq, x) == CHOOSE i \in 1..Len(seq) : seq[i] = x

RECURSIVE Pow(_, _)
Pow(b, n) == IF n = 0 THEN 1 ELSE b * Pow(b, n - 1)

\* HMAC-SHA256 as an injective keyed function: (key, message) pairs are
\* numbered, and the digest is that number written in DigestLen bytes, the
\* first byte offset so that the hex text of a digest holds letters
Hmac(key, msg) ==
    LET code == ((IndexOf(MacKeys, key) - 1) * Len(MacPrefixes)
                    + (IndexOf(MacPrefixes, msg.prefix) - 1)) * Len(MacPayloads)
                + IndexOf(MacPayloads, msg.payload)
    IN  [i \in 1..DigestLen |->
            ((code \div Pow(256, DigestLen - i)) % 256) + (IF i = 1 THEN 160 ELSE 0)]

\* a comparison that stops after the first byte
hmacEqualPrefix(a, b) == Len(a) > 0 /\ Len(b) > 0 /\ a[1] = b[1]

\* hmac.Equal: same length and same bytes
hmacEqual(a, b) == a = b

EmptyHeader == [timestamp |-> ZeroTime, signature |-> <<>>]

RECURSIVE ParsePairsStrict(_, _)
\* a loop that rejects a pair whose key it does not know
ParsePairsStrict(pairs, sh) ==
    IF pairs = <<>> THEN [err |-> NoError, sh |-> sh]
    ELSE LET parts == Split(Head(pairs), "=")
         IN  IF Len(parts) # 2 THEN [err |-> ErrInvalidHeader, sh |-> sh]
             ELSE IF parts[1] = <<"t">>
             THEN LET ts == ParseInt(parts[2])
                  IN  IF ~ts.ok THEN [err |-> ErrInvalidHeader, sh |-> sh]
                      ELSE ParsePairsStrict(Tail(pairs), [sh EXCEPT !.timestamp = ts.val])
             ELSE IF parts[1] = <<"v", "1">>
             THEN LET sig == DecodeString(parts[2])
                  IN  IF ~sig.ok THEN ParsePairsStrict(Tail(pairs), sh)
                      ELSE ParsePairsStrict(Tail(pairs), [sh EXCEPT !.signature = sig.bytes])
             ELSE [err |-> ErrInvalidHeader, sh |-> sh]

RECURSIVE ParsePairs(_, _)
\* the loop of parseSignatureHeader over the comma-separated pairs
ParsePairs(pairs, sh) ==
    IF pairs = <<>> THEN [err |-> NoError, sh |-> sh]
    ELSE LET parts == Split(Head(pairs), "=")
         IN  IF Len(parts) # 2 THEN [err |-> ErrInvalidHeader, sh |-> sh]
             ELSE IF parts[1] = <<"t">>
             THEN LET ts == ParseInt(parts[2])
                  IN  IF ~ts.ok THEN [err |-> ErrInvalidHeader, sh |-> sh]
                      ELSE ParsePairs(Tail(pairs), [sh EXCEPT !.timestamp = ts.val])
             ELSE IF parts[1] = signingVersion
             THEN LET sig == DecodeString(parts[2])
                  IN  IF ~sig.ok THEN ParsePairs(Tail(pairs), sh)
                      ELSE ParsePairs(Tail(pairs), [sh EXCEPT !.signature = sig.bytes])
             ELSE ParsePairs(Tail(pairs), sh)

parseSignatureHeader(header) ==
    IF header = <<>> THEN [err |-> ErrNotSigned, sh |-> EmptyHeader]
    ELSE LET r == ParsePairs(Split(header, ","), EmptyHeader)
         IN  IF r.err # NoError THEN r
             ELSE IF Len(r.sh.signature) = 0
             THEN [err |-> ErrNoValidSignature, sh |-> r.sh]
             ELSE r

computeSignature(t, payload, secret) == Hmac(secret, MacMessage(t, payload))

validatePayload(payload, sigHeader, secret) ==
    LET header == parseSignatureHeader(sigHeader)
    IN  IF header.err # NoError THEN header.err
        ELSE IF hmacEqual(computeSignature(header.sh.timestamp, payload, secret),
                          header.sh.signature)
        THEN NoError
        ELSE ErrNoValidSignature

\* constructEvent: the payload is returned only if it verifies and is JSON
constructEvent(payload, sigHeader, secret) ==
    LET err == validatePayload(payload, sigHeader, secret)
    IN  IF err # NoError THEN [err |-> err]
        ELSE IF ~IsJSON(payload) THEN [err |-> "failed to parse JSON"]
        ELSE [err |-> NoError]

\* the header the controller sends: t=T,v1=hex(HMAC(S, T + "." + P))
SignedHeader(t, payload, secret) ==
    <<"t", "=">> \o FormatInt(t) \o <<",", "v", "1", "=">>
        \o EncodeToString(computeSignature(t, payload, secret))

(***************************************************************************)
(* Inputs drawn for the verifier: headers joined from up to MaxPairs       *)
(* elements, two payloads, the two secrets.                                *)
(***************************************************************************)
PayloadA == [json |-> "array", event |-> NoUacEvent]
PayloadB == [json |-> "malformed", event |-> NoUacEvent]
SigPayloads == {PayloadA, PayloadB}

Seven == ParseInt(<<"7">>).val
Eight == ParseInt(<<"8">>).val

\* digests a sender may present, as lower-case hex text
GoodSigTexts ==
    { EncodeToString(computeSignature(t, p, RegisteredSecret)) :
        t \in {Seven, ZeroTime}, p \in SigPayloads }
    \cup { EncodeToString(computeSignature(Eight, PayloadA, RegisteredSecret)),
           EncodeToString(computeSignature(Seven, PayloadA, "whsec-2")) }

SigTexts ==
    GoodSigTexts
    \cup { ToUpper(EncodeToString(computeSignature(Seven, p, RegisteredSecret))) :
             p \in SigPayloads }
    \cup { <<"z", "z">>, <<>>, <<"a">>, <<"a", "0">> }

UnknownVersionElems ==
    { <<"v", "0", "=">> \o EncodeToString(computeSignature(Seven, PayloadA, RegisteredSecret)),
      <<"v", "2", "=", "z", "z">> }

MalformedElems == { <<"t">>, <<"t", "=", "7", "=", "7">>, <<>>, <<"v", "1">> }

SigElems ==
    { <<"t", "=">> \o x : x \in TimestampTexts }
    \cup { <<"v", "1", "=">> \o x : x \in SigTexts }
    \cup UnknownVersionElems
    \cup MalformedElems

RECURSIVE SeqsUpTo(_, _)
\* the sequences over S of length 1..n
SeqsUpTo(S, n) ==
    IF n = 0 THEN {}
    ELSE { <<x>> : x \in S }
         \cup { <<x>> \o q : x \in S, q \in SeqsUpTo(S, n - 1) }

SigHeaders == {<<>>} \cup { Join(q, ",") : q \in SeqsUpTo(SigElems, MaxPairs) }

(***************************************************************************)
(* The hub (Maker API) as the client sees it.                              *)
(***************************************************************************)
DeviceType(d) ==
    IF d \in ContactDevs THEN "contact" ELSE IF d \in LockDevs THEN "lock" ELSE "switch"

\* what a virtual device of each type reports and accepts
DriverCapability(type) ==
    CASE type = "contact" -> "ContactSensor" [] type = "lock" -> "Lock" [] OTHER -> "Switch"
DriverCommands(type) ==
    CASE type = "contact" -> {"open", "close"}
      [] type = "lock"    -> {"lock", "unlock"}
      [] OTHER            -> {"on", "off"}
DriverAttribute(type) ==
    CASE type = "contact" -> "contact" [] type = "lock" -> "lock" [] OTHER -> "switch"
DriverValues(type) ==
    CASE type = "contact" -> {"open", "closed"}
      [] type = "lock"    -> {"locked", "unlocked"}
      [] OTHER            -> {"on", "off"}

\* the attribute value a command leaves behind
CommandEffect(command) ==
    CASE command = "open"   -> "open"
      [] command = "close"  -> "closed"
      [] command = "lock"   -> "locked"
      [] command = "unlock" -> "unlocked"
      [] command = "on"     -> "on"
      [] OTHER              -> "off"

\* GetDeviceInfo(d): the attribute is the device's current one; the device may
\* be of a driver that lacks the capability or the commands (a wrong id in the
\* configuration), which is drawn per fetch
DeviceInfos(d) ==
    { [Capabilities |-> caps, Commands |-> cmds,
       Attributes |-> << [name |-> DriverAttribute(DeviceType(d)), currentValue |-> hub[d]] >>] :
        caps \in { {DriverCapability(DeviceType(d)), "Sensor"}, {"Sensor"} },
        cmds \in { DriverCommands(DeviceType(d)), {} } }

hasCapability(deviceInfo, capabilityName) == capabilityName \in deviceInfo.Capabilities
hasCommand(deviceInfo, commandName) == commandName \in deviceInfo.Commands

\* the arguments each Assert* wrapper passes to assertDeviceState
AssertArgs(op) ==
    CASE op = "AssertDoorContactOpened" ->
            [capability |-> "ContactSensor", command |-> "open",
             attributeName |-> "contact", desiredValue |-> "open"]
      [] op = "AssertDoorContactClosed" ->
            [capability |-> "ContactSensor", command |-> "close",
             attributeName |-> "contact", desiredValue |-> "close"]
      [] op = "AssertDoorLockUnlocked" ->
            [capability |-> "Lock", command |-> "unlock",
             attributeName |-> "lock", desiredValue |-> "unlocked"]
      [] op = "AssertDoorLockLocked" ->
            [capability |-> "Lock", command |-> "lock",
             attributeName |-> "lock", desiredValue |-> "locked"]
      [] op = "AssertDoorSwitchOn" ->
            [capability |-> "Switch", command |-> "on",
             attributeName |-> "switch", desiredValue |-> "on"]
      [] OTHER ->
            [capability |-> "Switch", command |-> "off",
             attributeName |-> "switch", desiredValue |-> "off"]

\* the checks without the one of the command list
assertWithoutCommandCheck(deviceInfo, capability, command, attributeName, desiredValue) ==
    IF ~hasCapability(deviceInfo, capability) THEN "error"
    ELSE IF \E i \in DOMAIN deviceInfo.Attributes :
                /\ deviceInfo.Attributes[i].name = attributeName
                /\ deviceInfo.Attributes[i].currentValue = desiredValue
    THEN "skip"
    ELSE "send"

\* assertDeviceState after a successful GetDeviceInfo: an error, nothing to do,
\* or the command is to be sent
assertDeviceState(deviceInfo, capability, command, attributeName, desiredValue) ==
    IF ~hasCapability(deviceInfo, capability) THEN "error"
    ELSE IF ~hasCommand(deviceInfo, command) THEN "error"
    ELSE IF \E i \in DOMAIN deviceInfo.Attributes :
                /\ deviceInfo.Attributes[i].name = attributeName
                /\ deviceInfo.Attributes[i].currentValue = desiredValue
    THEN "skip"
    ELSE "send"

(***************************************************************************)
(* Per-event goroutines.                                                   *)
(***************************************************************************)
\* pc: "spawned" (go func started), "sleep", "fetch", "send" (hub calls of
\* handleUacEvent), "get", "put" (controller calls of handleHubitatEvent),
\* "returned" (onEvent returned, wg.Done pending).
\* info, saw, hubCmds, uacReads, uacWrites, put, stale, failed record what the
\* task has read and issued so far.
NoInfo == [Capabilities |-> {}, Commands |-> {}, Attributes |-> <<>>]

NewTask(origin, uev, hev) ==
    [pc |-> "spawned", origin |-> origin, uev |-> uev, hev |-> hev,
     dev |-> "", op |-> "", slept |-> FALSE, info |-> NoInfo, saw |-> "none",
     hubCmds |-> 0, uacReads |-> 0, uacWrites |-> 0, put |-> "",
     stale |-> FALSE, failed |-> FALSE]

Running == BagToSet(tasks)

\* replace one copy of task t by u
Step(t, u) == tasks' = (tasks (-) SetToBag({t})) (+) SetToBag({u})

Return(t) == [t EXCEPT !.pc = "returned"]

\* a handler that logs the error of a call and goes on where it was
FailAndRetry(t) == [t EXCEPT !.failed = TRUE]

\* the error of a call is logged and the handler returns
Fail(t)   == [t EXCEPT !.pc = "returned", !.failed = TRUE]

(***************************************************************************)
(* Webhook ingest: WebhookHandler.ServeHTTP of both packages.              *)
(***************************************************************************)
NoResponse == [origin |-> "", status |-> 0, stage |-> ""]

\* a handler that does not verify the Signature header
uacServeWithoutSignature(r) ==
    IF r.token # AuthToken THEN [status |-> 403, stage |-> "token"]
    ELSE IF ~r.readable THEN [status |-> 400, stage |-> "read"]
    ELSE IF ~DecodesToEnvelope(r.body) THEN [status |-> 400, stage |-> "json"]
    ELSE [status |-> 200, stage |-> "ok"]

\* uac.WebhookHandler.ServeHTTP up to the dispatch: the status written and
\* the check that wrote it. r = [token, readable, sig, body]
uacServeHTTP(r) ==
    IF r.token # AuthToken THEN [status |-> 403, stage |-> "token"]
    ELSE IF ~r.readable THEN [status |-> 400, stage |-> "read"]
    ELSE IF constructEvent(r.body, r.sig, RegisteredSecret).err # NoError
    THEN [status |-> 401, stage |-> "signature"]
    ELSE IF ~DecodesToEnvelope(r.body) THEN [status |-> 400, stage |-> "json"]
    ELSE [status |-> 200, stage |-> "ok"]

\* hubitat.WebhookHandler.ServeHTTP up to the dispatch. r = [token, readable, body]
hubitatServeHTTP(r) ==
    IF r.token # AuthToken THEN [status |-> 403, stage |-> "token"]
    ELSE IF ~r.readable THEN [status |-> 400, stage |-> "read"]
    ELSE IF ~DecodesToEnvelope(r.body) THEN [status |-> 400, stage |-> "json"]
    ELSE [status |-> 200, stage |-> "ok"]

\* Requests of the controller whose events reach the router: authentic,
\* signed with the registered secret, one per event
AuthenticUacRequest(b) ==
    [token |-> AuthToken, readable |-> TRUE,
     sig |-> SignedHeader(Seven, b, RegisteredSecret), body |-> b]

UacRequestsOf(events) ==
    { AuthenticUacRequest([json |-> "object", event |-> e]) : e \in events }

UnlockRequests    == UacRequestsOf(UnlockEvents \cup OtherEvents)
DpsRequests       == UacRequestsOf(DpsEvents \cup OtherEvents)
RoutedUacRequests == UacRequestsOf(UacEvents)

RoutedHubRequests ==
    { [token |-> AuthToken, readable |-> TRUE, body |-> [json |-> "object", content |-> e]] :
        e \in HubEvents }

\* Requests drawn to exercise the ingest checks: every token, readable or
\* not, several Signature headers, bodies of each shape
IngestUacEvents ==
    { e \in UacEvents :
        \/ /\ e.event = "access.door.unlock" /\ e.loc = "door-1"
           /\ e.actorName = "someone" /\ e.result = "Access Granted"
        \/ e.event = "access.doorbell.incoming" }

IngestUacBodies ==
    { b \in UacBodies : b.json # "object" \/ b.event \in IngestUacEvents }

IngestSigs(b) ==
    { <<>>,
      SignedHeader(Seven, b, RegisteredSecret),
      SignedHeader(Seven, b, "whsec-2"),
      SignedHeader(Seven, PayloadA, RegisteredSecret),
      <<"t", "=", "x", ",", "v", "1", "=">>
          \o EncodeToString(computeSignature(Seven, b, RegisteredSecret)),
      <<"t", "=", "7">> }

IngestUacRequests ==
    UNION { { [token |-> k, readable |-> rd, sig |-> h, body |-> b] :
                k \in Tokens, rd \in BOOLEAN, h \in IngestSigs(b) } :
            b \in IngestUacBodies }

IngestHubEvents ==
    { e \in HubEvents : e.deviceId \in {"l1", "dev-x"} /\ e.value = "unlocked" }

IngestHubRequests ==
    { [token |-> k, readable |-> rd, body |-> b] :
        k \in Tokens, rd \in BOOLEAN,
        b \in { x \in HubBodies : x.json # "object" \/ x.content \in IngestHubEvents } }

\* the webhook the hub posts for a device whose attribute has changed
HubRequest(d, v) ==
    [origin |-> "hubitat",
     r |-> [token |-> AuthToken, readable |-> TRUE,
            body |-> [json |-> "object", content |-> [deviceId |-> d, value |-> v]]]]

\* the webhooks the hub posts for the contact devices
ContactRequests ==
    { HubRequest(d, v).r : d \in ContactDevs, v \in DriverValues("contact") }

\* the answers of ServeHTTP, computed once per request
uacAnswer == [r \in RoutedUacRequests \cup IngestUacRequests |-> uacServeHTTP(r)]
hubAnswer ==
    [r \in RoutedHubRequests \cup IngestHubRequests \cup ContactRequests |->
        hubitatServeHTTP(r)]

\* uac.WebhookHandler.ServeHTTP: reject, or wg.Add(1) and start the goroutine
ServeUac(r) ==
    LET a == uacAnswer[r]
    IN  /\ resp' = [origin |-> "uac", status |-> a.status, stage |-> a.stage]
        /\ IF a.status = 200
           THEN /\ BagCardinality(tasks) < MaxTasks
                /\ wg' = wg + 1
                /\ tasks' = tasks (+) SetToBag({NewTask("uac", r.body.event, NoHubEvent)})
           ELSE UNCHANGED <<wg, tasks>>
        /\ UNCHANGED <<sigVars, tokenName, hub, uacRule, uacRelay>>

\* hubitat.WebhookHandler.ServeHTTP
ServeHub(r) ==
    LET a == hubAnswer[r]
    IN  /\ resp' = [origin |-> "hubitat", status |-> a.status, stage |-> a.stage]
        /\ IF a.status = 200
           THEN /\ BagCardinality(tasks) < MaxTasks
                /\ wg' = wg + 1
                /\ tasks' = tasks (+) SetToBag({NewTask("hubitat", NoUacEvent, r.body.content)})
           ELSE UNCHANGED <<wg, tasks>>
        /\ UNCHANGED <<sigVars, tokenName, hub, uacRule, uacRelay>>

(***************************************************************************)
(* Event router, controller to hub: handleUacEvent.                        *)
(***************************************************************************)
\* a test that takes every API client for the middleware
IsAnyApiClient(evt) == evt.actorType = "open-api"

\* the anti-feedback test of handleUacEvent
IsOwnAction(evt) == evt.actorType = "open-api" /\ evt.actorName = MiddlewareName

\* a router that asserts the contact device on a door-position event of any
\* sub-event type
handleDpsOfAnyType(t) ==
    LET evt == t.uev
        i   == getDoorByUacID(evt.loc)
    IN  IF /\ evt.event = "access.device.dps_status" /\ evt.dataOK
           /\ i # 0 /\ evt.status \in {"open", "close"}
        THEN [t EXCEPT !.pc = "fetch", !.dev = Doors[i].HubitatContactID,
                       !.op = IF evt.status = "open" THEN "AssertDoorContactOpened"
                              ELSE "AssertDoorContactClosed"]
        ELSE Return(t)

\* handleUacEvent from its start to its first blocking call (or its return)
handleUacEvent(t) ==
    LET evt == t.uev
        i   == getDoorByUacID(evt.loc)
    IN  IF evt.event = "access.door.unlock"
        THEN IF ~evt.dataOK THEN Return(t)
             ELSE IF IsOwnAction(evt) THEN Return(t)
             ELSE IF evt.result # "Access Granted" THEN Return(t)
             ELSE IF i = 0 THEN Return(t)
             ELSE [t EXCEPT !.pc = "sleep", !.dev = Doors[i].HubitatSwitchID,
                            !.op = "AssertDoorSwitchOn"]
        ELSE IF evt.event = "access.device.dps_status"
        THEN IF ~evt.dataOK THEN Return(t)
             ELSE IF evt.eventType # "dps_change" THEN Return(t)
             ELSE IF i = 0 THEN Return(t)
             ELSE IF evt.status = "open"
             THEN [t EXCEPT !.pc = "fetch", !.dev = Doors[i].HubitatContactID,
                            !.op = "AssertDoorContactOpened"]
             ELSE IF evt.status = "close"
             THEN [t EXCEPT !.pc = "fetch", !.dev = Doors[i].HubitatContactID,
                            !.op = "AssertDoorContactClosed"]
             ELSE Return(t)
        ELSE Return(t)

\* the goroutine runs h.onEvent(event) up to its first blocking call
UacStart(t) ==
    /\ t.pc = "spawned" /\ t.origin = "uac"
    /\ Step(t, handleUacEvent(t))
    /\ UNCHANGED <<inVars, tokenName, hub, uacRule, uacRelay, wg, resp>>

\* time.Sleep(200 * time.Millisecond) has elapsed
Sleep(t) ==
    /\ t.pc = "sleep"
    /\ Step(t, [t EXCEPT !.pc = "fetch", !.slept = TRUE])
    /\ UNCHANGED <<inVars, tokenName, hub, uacRule, uacRelay, wg, resp>>

\* assertDeviceState, first half: GetDeviceInfo and the three checks
HubFetch(t) ==
    /\ t.pc = "fetch"
    /\ \/ Step(t, Fail(t))
       \/ \E info \in DeviceInfos(t.dev) :
            LET a == AssertArgs(t.op)
                d == assertDeviceState(info, a.capability, a.command,
                                       a.attributeName, a.desiredValue)
                u == [t EXCEPT !.info = info, !.saw = hub[t.dev]]
            IN  Step(t, IF d = "error" THEN Fail(u)
                        ELSE IF d = "skip" THEN Return(u)
                        ELSE [u EXCEPT !.pc = "send"])
    /\ UNCHANGED <<inVars, tokenName, hub, uacRule, uacRelay, wg, resp>>

\* assertDeviceState, second half: sendDeviceCommand; the hub applies the
\* command unless the call fails
HubSend(t) ==
    /\ t.pc = "send"
    /\ LET a == AssertArgs(t.op)
           u == [t EXCEPT !.hubCmds = @ + 1,
                          !.stale = (hub[t.dev] = a.desiredValue)]
       IN  \/ /\ hub' = [hub EXCEPT ![t.dev] = CommandEffect(a.command)]
              /\ Step(t, Return(u))
           \/ /\ UNCHANGED hub
              /\ Step(t, Fail(u))
    /\ UNCHANGED <<inVars, tokenName, uacRule, uacRelay, wg, resp>>

\* the deferred h.wg.Done() as the goroutine ends
TaskExit(t) ==
    /\ t.pc = "returned"
    /\ tasks' = tasks (-) SetToBag({t})
    /\ wg' = wg - 1
    /\ UNCHANGED <<inVars, tokenName, hub, uacRule, uacRelay, resp>>

(***************************************************************************)
(* Event router, hub to controller: handleHubitatEvent and the controller  *)
(* client's Assert* methods.                                               *)
(***************************************************************************)
\* lock rule types the controller may report besides the default ("") and
\* keep_unlock, and the relay states
RuleTypes  == {"", "keep_unlock", "keep_lock"}
RelayTypes == {"lock", "unlock"}

\* handleHubitatEvent from its start to its first blocking call (or its return)
handleHubitatEvent(t) ==
    LET evt == t.hev
        r   == getDoorByHubitatID(evt.deviceId)
    IN  IF ~r.found THEN Return(t)
        ELSE IF r.deviceType = "switch"
        THEN IF evt.value = "on"
             THEN [t EXCEPT !.pc = "get", !.dev = Doors[r.door].UacID,
                            !.op = "AssertToggleDoorUnlock"]
             ELSE Return(t)
        ELSE IF r.deviceType = "lock"
        THEN IF evt.value = "unlocked"
             THEN [t EXCEPT !.pc = "get", !.dev = Doors[r.door].UacID,
                            !.op = "AssertUnlockDoor"]
             ELSE IF evt.value = "locked"
             THEN [t EXCEPT !.pc = "get", !.dev = Doors[r.door].UacID,
                            !.op = "AssertLockDoor"]
             ELSE Return(t)
        ELSE Return(t)

HubStart(t) ==
    /\ t.pc = "spawned" /\ t.origin = "hubitat"
    /\ Step(t, handleHubitatEvent(t))
    /\ UNCHANGED <<inVars, tokenName, hub, uacRule, uacRelay, wg, resp>>

\* what the Assert* method reads first: FetchDoor's relay status or
\* GetDoorLockRule's rule type
ControllerRead(op, doorID) ==
    IF op = "AssertToggleDoorUnlock" THEN uacRelay[doorID] ELSE uacRule[doorID]

\* a method that never skips its mutating call
NeverThere(op, seen) == FALSE

\* a toggle that takes a locked relay for the state it is after
ThereWhenLocked(op, seen) ==
    CASE op = "AssertToggleDoorUnlock" -> seen = "lock"
      [] op = "AssertUnlockDoor"       -> seen = "keep_unlock"
      [] OTHER                         -> seen = ""

\* the value at which the Assert* method returns without a mutating call
AlreadyThere(op, seen) ==
    CASE op = "AssertToggleDoorUnlock" -> seen = "unlock"
      [] op = "AssertUnlockDoor"       -> seen = "keep_unlock"
      [] OTHER                         -> seen = ""

\* the mutating call the Assert* method makes: PUT .../unlock, or
\* setDoorLockRule with this rule type
MutatingCall(op) ==
    CASE op = "AssertToggleDoorUnlock" -> "unlock"
      [] op = "AssertUnlockDoor"       -> "keep_unlock"
      [] OTHER                         -> "reset"

\* Assert* method, first half: the read call, which may fail
UacGet(t) ==
    /\ t.pc = "get"
    /\ LET u == [t EXCEPT !.uacReads = @ + 1]
           seen == ControllerRead(t.op, t.dev)
       IN  \/ Step(t, Fail(u))
           \/ Step(t, IF AlreadyThere(t.op, seen)
                      THEN Return([u EXCEPT !.saw = seen])
                      ELSE [u EXCEPT !.saw = seen, !.pc = "put"])
    /\ UNCHANGED <<inVars, tokenName, hub, uacRule, uacRelay, wg, resp>>

\* Assert* method, second half: the mutating call; the controller applies it
\* unless the call fails
UacPut(t) ==
    /\ t.pc = "put"
    /\ LET call == MutatingCall(t.op)
           u    == [t EXCEPT !.uacWrites = @ + 1, !.put = call]
       IN  \/ /\ Step(t, Return(u))
              /\ IF call = "unlock"
                 THEN /\ uacRelay' = [uacRelay EXCEPT ![t.dev] = "unlock"]
                      /\ UNCHANGED uacRule
                 ELSE /\ uacRule' = [uacRule EXCEPT
                                        ![t.dev] = IF call = "reset" THEN "" ELSE call]
                      /\ UNCHANGED uacRelay
           \/ /\ Step(t, Fail(u))
              /\ UNCHANGED <<uacRule, uacRelay>>
    /\ UNCHANGED <<inVars, tokenName, hub, wg, resp>>

(***************************************************************************)
(* The verifier on its own: validatePayload applied to a drawn input.      *)
(***************************************************************************)
Validate ==
    /\ sigOut = "pending"
    /\ sigOut' = validatePayload(sigIn.payload, sigIn.header, sigIn.secret)
    /\ UNCHANGED <<sigIn, inbox, req, bootVars, sysVars>>

(***************************************************************************)
(* Initial states and specifications.                                      *)
(***************************************************************************)
NoRequest == [origin |-> "none"]
NoEqInput  == [a |-> <<>>, b |-> <<>>, ma |-> <<>>, mb |-> <<>>]
NoEqOutput == [done |-> FALSE, slices |-> FALSE, maps |-> FALSE]
NoReg      == [pc |-> "idle", run |-> 0]
\* main: pc "idle", "register" (in assertUacWebhookExists), "waiting"
\* (<-osSignals), "stopping" (wg.Wait), "returning" (wg.Wait returned),
\* "exited" with the exit status in code. listener is the server that
\* http.ListenAndServe runs, hserver the value of HServer, secret the secret
\* the webhook handler was built with, shut the goroutine of HServer.Shutdown
NoProc ==
    [pc |-> "idle", code |-> -1, listener |-> "off", secret |-> "",
     cancelled |-> FALSE, hserver |-> "new", shut |-> "none"]
\* pollUacStates: pc "idle", "fetch" (FetchAllDoors), "snapinfo", "snapsend"
\* (the contact assertion of the startup loop), "wait" (the select), "query"
\* (GetDoorLockRule), "lockinfo", "locksend" (the lock assertion), "done".
\* rest is what the startup loop has still to visit, i the index of the tick
\* loop, cur its currDoorLockRuleState, states the map doorLockRuleStates,
\* tickReady a value waiting in ticker.C. ok, owed, snapped and log record
\* what the reconciler has fetched, asserted and queried so far
NoPoll ==
    [pc |-> "idle", rest |-> <<>>, op |-> "", dev |-> "", i |-> 0, cur |-> "",
     states |-> <<>>, tickReady |-> FALSE, ok |-> FALSE, owed |-> {},
     snapped |-> {}, log |-> <<>>]

\* the parts of the program a specification does not exercise are at rest
BootIdle ==
    /\ eqIn = NoEqInput /\ eqOut = NoEqOutput
    /\ webhooks = <<>>
    /\ reg = NoReg
    /\ proc = NoProc
    /\ poll = NoPoll
    /\ uacDps = [d \in DoorIDs |-> "close"]

NoSigInput == [header |-> <<>>, payload |-> PayloadA, secret |-> RegisteredSecret]

HubStates == { h \in [HubDevs -> {"open", "closed", "locked", "unlocked", "on", "off"}] :
                 \A d \in HubDevs : h[d] \in DriverValues(DeviceType(d)) }
HubAtRest == [d \in HubDevs |->
                 CASE DeviceType(d) = "contact" -> "closed"
                   [] DeviceType(d) = "lock"    -> "locked"
                   [] OTHER                     -> "off"]

\* the listener is up, no request has arrived; the hub, the controller and
\* the name of the API key are whatever the installation has
Init ==
    /\ sigIn = NoSigInput /\ sigOut = "idle"
    /\ tokenName \in TokenNames
    /\ hub \in HubStates
    /\ uacRule \in [DoorIDs -> RuleTypes]
    /\ uacRelay \in [DoorIDs -> RelayTypes]
    /\ tasks = EmptyBag
    /\ wg = 0
    /\ resp = NoResponse
    /\ inbox = <<>>
    /\ req = NoRequest
    /\ BootIdle

\* the model keeps at most MaxTasks goroutines in flight
Room == BagCardinality(tasks) < MaxTasks

TaskStep(t) ==
    \/ UacStart(t)
    \/ Sleep(t)
    \/ HubFetch(t)
    \/ HubSend(t)
    \/ HubStart(t)
    \/ UacGet(t)
    \/ UacPut(t)
    \/ TaskExit(t)

Next ==
    \/ Room /\ \E r \in RoutedUacRequests : ServeUac(r) /\ UNCHANGED <<inbox, req>>
    \/ Room /\ \E r \in RoutedHubRequests : ServeHub(r) /\ UNCHANGED <<inbox, req>>
    \/ \E t \in Running : TaskStep(t)

\* the whole middleware with both origins delivering events
Spec == Init /\ [][Next]_vars

ControllerAtRest ==
    /\ uacRule = [d \in DoorIDs |-> ""]
    /\ uacRelay = [d \in DoorIDs |-> "lock"]

\* The controller delivers door-unlock events only; what these events never
\* read or write is at rest
InitUnlock ==
    /\ Init
    /\ ControllerAtRest
    /\ \A d \in HubDevs \ SwitchDevs : hub[d] = HubAtRest[d]

NextUnlock ==
    \/ Room /\ \E r \in UnlockRequests : ServeUac(r) /\ UNCHANGED <<inbox, req>>
    \/ \E t \in Running : UacStart(t)
    \/ \E t \in Running : Sleep(t)
    \/ \E t \in Running : HubFetch(t)
    \/ \E t \in Running : HubSend(t)
    \/ \E t \in Running : TaskExit(t)

SpecUnlock == InitUnlock /\ [][NextUnlock]_vars

\* The controller delivers door-position events only
InitDps ==
    /\ Init
    /\ ControllerAtRest
    /\ tokenName = MiddlewareName
    /\ \A d \in HubDevs \ ContactDevs : hub[d] = HubAtRest[d]

NextDps ==
    \/ Room /\ \E r \in DpsRequests : ServeUac(r) /\ UNCHANGED <<inbox, req>>
    \/ \E t \in Running : UacStart(t)
    \/ \E t \in Running : HubFetch(t)
    \/ \E t \in Running : HubSend(t)
    \/ \E t \in Running : TaskExit(t)

SpecDps == InitDps /\ [][NextDps]_vars

\* only the hub delivers events; the hub's devices are at rest
InitHub ==
    /\ Init
    /\ tokenName = MiddlewareName
    /\ hub = HubAtRest
    /\ \A i \in DOMAIN Doors : Doors[i].HubitatLockID = NoLock => uacRule[Doors[i].UacID] = ""

NextHub ==
    \/ Room /\ \E r \in RoutedHubRequests : ServeHub(r) /\ UNCHANGED <<inbox, req>>
    \/ \E t \in Running : HubStart(t)
    \/ \E t \in Running : UacGet(t)
    \/ \E t \in Running : UacPut(t)
    \/ \E t \in Running : TaskExit(t)

SpecHub == InitHub /\ [][NextHub]_vars

\* the requests sent to the two endpoints, tagged with the endpoint
IngestRequests ==
    { [origin |-> "uac", r |-> r] : r \in IngestUacRequests }
        \cup { [origin |-> "hubitat", r |-> r] : r \in IngestHubRequests }

\* both endpoints under requests of every shape: two requests are on their way
InitIngest ==
    /\ sigIn = NoSigInput /\ sigOut = "idle"
    /\ tokenName = MiddlewareName
    /\ hub = HubAtRest
    /\ ControllerAtRest
    /\ tasks = EmptyBag
    /\ wg = 0
    /\ resp = NoResponse
    /\ inbox \in { <<a, b>> : a \in IngestRequests, b \in IngestRequests }
    /\ req = NoRequest
    /\ BootIdle

\* the next request reaches its endpoint, whose ServeHTTP answers it
Deliver ==
    /\ inbox # <<>>
    /\ inbox' = Tail(inbox)
    /\ req' = Head(inbox)
    /\ IF Head(inbox).origin = "uac"
       THEN ServeUac(Head(inbox).r)
       ELSE ServeHub(Head(inbox).r)

NextIngest ==
    \/ Deliver
    \/ \E t \in Running : UacStart(t)
    \/ \E t \in Running : Sleep(t)
    \/ \E t \in Running : HubFetch(t)
    \/ \E t \in Running : HubSend(t)
    \/ \E t \in Running : HubStart(t)
    \/ \E t \in Running : UacGet(t)
    \/ \E t \in Running : UacPut(t)
    \/ \E t \in Running : TaskExit(t)

SpecIngest == InitIngest /\ [][NextIngest]_vars

\* the verifier applied to one drawn header, payload and secret
InitSig ==
    /\ sigIn \in [header : SigHeaders, payload : SigPayloads, secret : Secrets]
    /\ sigOut = "pending"
    /\ tokenName = MiddlewareName
    /\ hub = HubAtRest
    /\ ControllerAtRest
    /\ tasks = EmptyBag
    /\ wg = 0
    /\ resp = NoResponse
    /\ inbox = <<>>
    /\ req = NoRequest
    /\ BootIdle

NextSig == Validate

SpecSig == InitSig /\ [][NextSig]_vars

(***************************************************************************)
(* Signature verifier: claims C6 and C7, under SpecSig.                    *)
(***************************************************************************)
Validated == sigOut \notin {"pending", "idle"}

\* the headers made of exactly a t pair followed by a v1 pair
IsTwoPair(h) ==
    LET e == Split(h, ",")
    IN  /\ Len(e) = 2
        /\ Len(Split(e[1], "=")) = 2 /\ Split(e[1], "=")[1] = <<"t">>
        /\ Len(Split(e[2], "=")) = 2 /\ Split(e[2], "=")[1] = <<"v", "1">>
TsTextOf(h)  == Split(Split(h, ",")[1], "=")[2]
SigTextOf(h) == Split(Split(h, ",")[2], "=")[2]

\* C6 as stated: the header t=T,v1=hex(HMAC(S, T.P)) verifies for payload P,
\* and with the payload, the timestamp text or the signature text replaced by
\* ANY different text (the other two kept) verification fails.
C6_AnyChangedTextFails ==
    Validated =>
        \A T \in {Seven, Eight}, P \in SigPayloads :
            LET good == SignedHeader(T, P, sigIn.secret)
                h    == sigIn.header
            IN  /\ (h = good /\ sigIn.payload = P) => sigOut = NoError
                /\ (h = good /\ sigIn.payload # P) => sigOut # NoError
                /\ ( /\ IsTwoPair(h) /\ sigIn.payload = P
                     /\ \/ TsTextOf(h) # FormatInt(T) /\ SigTextOf(h) = SigTextOf(good)
                        \/ TsTextOf(h) = FormatInt(T) /\ SigTextOf(h) # SigTextOf(good) )
                   => sigOut # NoError

\* C6 amended: the header t=T,v1=hex(HMAC(S, T.P)) verifies for payload P;
\* verification fails when the payload differs, when the timestamp text does
\* not parse to the integer T, or when the signature text does not decode to
\* the bytes of the digest (the other two kept). A timestamp rewritten with a
\* sign or leading zeros, or a digest rewritten in upper case, is the same
\* value and still verifies.
C6_ChangedValueFails ==
    Validated =>
        \A T \in {Seven, Eight}, P \in SigPayloads :
            LET good == SignedHeader(T, P, sigIn.secret)
                h    == sigIn.header
            IN  /\ (h = good /\ sigIn.payload = P) => sigOut = NoError
                /\ (h = good /\ sigIn.payload # P) => sigOut # NoError
                /\ ( /\ IsTwoPair(h) /\ sigIn.payload = P
                     /\ \/ /\ SigTextOf(h) = SigTextOf(good)
                           /\ \/ ~ParseInt(TsTextOf(h)).ok
                              \/ ParseInt(TsTextOf(h)).val # T
                        \/ /\ TsTextOf(h) = FormatInt(T)
                           /\ \/ ~DecodeString(SigTextOf(h)).ok
                              \/ DecodeString(SigTextOf(h)).bytes
                                     # DecodeString(SigTextOf(good)).bytes )
                   => sigOut # NoError

\* the header signed for one payload was presented with the other payload
\* and refused
C6_Witness ==
    /\ sigIn.header = SignedHeader(Seven, PayloadA, sigIn.secret)
    /\ sigIn.payload = PayloadB
    /\ sigOut = ErrNoValidSignature

\* an element that is not exactly one key=value pair, or a t pair whose value
\* is no decimal integer
IsBadElem(e) ==
    LET parts == Split(e, "=")
    IN  \/ Len(parts) # 2
        \/ /\ parts[1] = <<"t">>
           /\ LET v == parts[2]
                  b == IF v # <<>> /\ v[1] \in {"+", "-"} THEN Tail(v) ELSE v
              IN  b = <<>> \/ \E i \in 1..Len(b) : b[i] \notin Digits

IsUnknownPair(e) ==
    LET parts == Split(e, "=")
    IN  Len(parts) = 2 /\ parts[1] \notin {<<"t">>, <<"v", "1">>}

\* the digests of the v1 pairs that decode to at least one byte
DigestsOf(elems) ==
    { DecodeString(Split(elems[i], "=")[2]).bytes :
        i \in { j \in 1..Len(elems) :
                  /\ Len(Split(elems[j], "=")) = 2
                  /\ Split(elems[j], "=")[1] = <<"v", "1">>
                  /\ DecodeString(Split(elems[j], "=")[2]).ok
                  /\ DecodeString(Split(elems[j], "=")[2]).bytes # <<>> } }

\* the timestamps the t pairs carry, and the zero time of a header without one
TimesOf(elems) ==
    { ParseInt(Split(elems[i], "=")[2]).val :
        i \in { j \in 1..Len(elems) :
                  /\ Len(Split(elems[j], "=")) = 2
                  /\ Split(elems[j], "=")[1] = <<"t">> } } \cup {ZeroTime}

Without(elems, i) == SubSeq(elems, 1, i - 1) \o SubSeq(elems, i + 1, Len(elems))

\* C7: an empty header is "not signed"; otherwise an element that is not one
\* key=value pair, or a t value that is no decimal integer, is "invalid
\* header"; otherwise a header with no v1 pair that decodes to a non-empty
\* digest, or none whose digest is the expected one, is "no valid signature";
\* the three failures are distinct, and a pair with an unrecognised key is
\* skipped: the header without it, when that still is a header, has the same
\* outcome.
C7_FailureKinds ==
    Validated =>
        LET h     == sigIn.header
            elems == Split(h, ",")
            bad   == \E i \in 1..Len(elems) : IsBadElem(elems[i])
        IN  /\ Cardinality({ErrNotSigned, ErrInvalidHeader, ErrNoValidSignature, NoError}) = 4
            /\ h = <<>> => sigOut = ErrNotSigned
            /\ (h # <<>> /\ bad) => sigOut = ErrInvalidHeader
            /\ (h # <<>> /\ ~bad /\ DigestsOf(elems) = {}) => sigOut = ErrNoValidSignature
            /\ ( /\ h # <<>> /\ ~bad
                 /\ \A T \in TimesOf(elems) :
                        computeSignature(T, sigIn.payload, sigIn.secret) \notin DigestsOf(elems) )
               => sigOut = ErrNoValidSignature
            /\ (h # <<>> /\ ~bad) => sigOut \in {NoError, ErrNoValidSignature}
            /\ \A i \in 1..Len(elems) :
                  (IsUnknownPair(elems[i]) /\ Join(Without(elems, i), ",") # <<>>)
                  => sigOut = validatePayload(sigIn.payload, Join(Without(elems, i), ","),
                                              sigIn.secret)

\* a header holding a pair of an unknown version beside a good v1 pair verified
C7_Witness ==
    /\ sigOut = NoError
    /\ \E i \in 1..Len(Split(sigIn.header, ",")) :
          IsUnknownPair(Split(sigIn.header, ",")[i])

(***************************************************************************)
(* Controller events to hub commands: claims C1, C2, C3 and C8.            *)
(***************************************************************************)
UacTasks == { t \in Running : t.origin = "uac" }

\* the actor the controller reports for the calls made with the middleware's
\* API key: type "open-api" and the name the key was created under
IsSelfActor(evt) == evt.actorType = "open-api" /\ evt.actorName = tokenName

UnlockTasks == { t \in UacTasks : t.uev.event = "access.door.unlock" /\ t.uev.dataOK }

\* C1: handling an access.door.unlock event whose actor is the middleware's
\* own identity issues no hub command, whatever the result, the door and the
\* hub device's state are.
C1_SelfEventNoCommand ==
    \A t \in UnlockTasks : IsSelfActor(t.uev) => t.hubCmds = 0

\* the task the assert primitive was invoked in, and what it fetched
Asserted(t) == t.op # "" /\ t.pc \in {"send", "returned"}
Fetched(t)  == t.info # NoInfo
AttrAtRead(t) == t.info.Attributes[1].currentValue

\* C2: one invocation of assertDeviceState issues at most one command; none
\* when the fetched attribute equals the desired value, when the device lacks
\* the capability or the command, or when the fetch fails, and in the last
\* two cases it returns an error.
C2_AssertAtMostOne ==
    \A t \in UacTasks :
        LET a == AssertArgs(t.op)
        IN  /\ t.hubCmds <= 1
            /\ (Asserted(t) /\ ~Fetched(t)) => (t.hubCmds = 0 /\ t.failed)
            /\ (Asserted(t) /\ Fetched(t) /\ a.capability \notin t.info.Capabilities)
                   => (t.hubCmds = 0 /\ t.failed /\ t.pc = "returned")
            /\ (Asserted(t) /\ Fetched(t) /\ a.command \notin t.info.Commands)
                   => (t.hubCmds = 0 /\ t.failed /\ t.pc = "returned")
            /\ (Asserted(t) /\ Fetched(t) /\ AttrAtRead(t) = a.desiredValue)
                   => (t.hubCmds = 0 /\ t.pc = "returned")

\* an assertion ended in an error, with no command, on a device that has the
\* capability but not the command
C2_Witness ==
    \E t \in UacTasks :
        /\ t.pc = "returned" /\ t.failed /\ t.hubCmds = 0 /\ Fetched(t)
        /\ AssertArgs(t.op).capability \in t.info.Capabilities
        /\ AssertArgs(t.op).command \notin t.info.Commands

\* C3: in every interleaving of tasks asserting the same device to the same
\* value, no command is sent to a device whose attribute equals the desired
\* value when the command is sent.
C3_NoDuplicateCommand == \A t \in UacTasks : ~t.stale

\* C8: a granted unlock event of a non-self actor for a configured door waits
\* the delay before anything else, then reads the switch, and (the device
\* being a switch) issues exactly one "on" if the switch was not on at the
\* read and none if it was; an event that is not granted issues no command.
C8_GrantedUnlockTurnsSwitchOn ==
    \A t \in UnlockTasks :
        /\ t.uev.result # "Access Granted" => (t.hubCmds = 0 /\ ~Fetched(t))
        /\ ( /\ t.uev.result = "Access Granted" /\ ~IsSelfActor(t.uev)
             /\ getDoorByUacID(t.uev.loc) # 0 )
           => /\ t.pc # "spawned" => (t.dev = Doors[getDoorByUacID(t.uev.loc)].HubitatSwitchID
                                       /\ t.op = "AssertDoorSwitchOn")
              /\ t.pc \notin {"spawned", "sleep"} => t.slept
              /\ Fetched(t) => t.slept
              /\ (Fetched(t) /\ AttrAtRead(t) = "on") => t.hubCmds = 0
              /\ ( /\ Fetched(t) /\ AttrAtRead(t) # "on" /\ t.pc = "returned"
                   /\ "Switch" \in t.info.Capabilities /\ "on" \in t.info.Commands )
                 => t.hubCmds = 1

(***************************************************************************)
(* Hub events to controller calls: claims C9 and C10, under SpecHub.       *)
(***************************************************************************)
HubTasks == { t \in Running : t.origin = "hubitat" }

\* the door whose lock device the event names, 0 if none
LockDoorOf(t) ==
    IF \E i \in DOMAIN Doors : Doors[i].HubitatLockID = t.hev.deviceId
    THEN CHOOSE i \in DOMAIN Doors : Doors[i].HubitatLockID = t.hev.deviceId
    ELSE 0

\* the task has the answer of its read call
HasRead(t) == t.saw # "none"

\* C9: a hub event of door D's lock device with value "locked" causes a
\* set-lock-rule(reset) call for D iff the rule fetched just before is not the
\* default one; value "unlocked" causes set-lock-rule(keep_unlock) iff the
\* fetched rule is not keep_unlock; at most one mutating call is made per
\* event, and any other value causes none.
C9_LockEventSetsRule ==
    \A t \in HubTasks :
        LockDoorOf(t) # 0 =>
            LET skipAt == IF t.hev.value = "locked" THEN "" ELSE "keep_unlock"
                call   == IF t.hev.value = "locked" THEN "reset" ELSE "keep_unlock"
            IN  /\ t.uacWrites <= 1
                /\ t.hev.value \notin {"locked", "unlocked"}
                       => (t.uacWrites = 0 /\ t.uacReads = 0 /\ t.pc \in {"spawned", "returned"})
                /\ t.hev.value \in {"locked", "unlocked"} =>
                       /\ t.pc # "spawned" => t.dev = Doors[LockDoorOf(t)].UacID
                       /\ t.uacWrites = 1 => (HasRead(t) /\ t.saw # skipAt /\ t.put = call)
                       /\ t.pc = "put" => (HasRead(t) /\ t.saw # skipAt)
                       /\ (HasRead(t) /\ t.saw # skipAt /\ t.pc = "returned")
                              => (t.uacWrites = 1 /\ t.put = call)
                       /\ (HasRead(t) /\ t.saw = skipAt)
                              => (t.uacWrites = 0 /\ t.pc = "returned")
                       /\ ~HasRead(t) => t.uacWrites = 0

\* a "locked" event found the rule keep_unlock and reset it
C9_Witness ==
    \E t \in HubTasks :
        /\ LockDoorOf(t) # 0 /\ t.hev.value = "locked" /\ t.pc = "returned"
        /\ t.saw = "keep_unlock" /\ t.put = "reset" /\ t.uacWrites = 1 /\ ~t.failed
        /\ uacRule[t.dev] = ""

\* C10: a hub event whose device is the contact device of a configured door
\* causes no call to the controller, neither a read nor a mutating one,
\* whatever its value is.
C10_ContactNeverDrives ==
    \A t \in HubTasks :
        t.hev.deviceId \in ContactDevs
            => (t.uacReads = 0 /\ t.uacWrites = 0 /\ t.pc \in {"spawned", "returned"})

\* the event of a contact device was handled and the handler has returned
C10_Witness ==
    \E t \in HubTasks :
        /\ t.hev.deviceId \in ContactDevs /\ t.hev.value = "on"
        /\ t.pc = "returned" /\ t.uacReads = 0

(***************************************************************************)
(* Webhook ingest: claims C4 and C5, under SpecIngest.                     *)
(***************************************************************************)
\* the body is well-formed JSON for the event envelope
WellFormedEnvelope(body) == IsJSON(body) /\ DecodesToEnvelope(body)

\* the request passes authentication and parses
Authenticates(q) ==
    IF q.origin = "uac"
    THEN /\ q.r.token = AuthToken
         /\ q.r.readable
         /\ validatePayload(q.r.body, q.r.sig, RegisteredSecret) = NoError
    ELSE q.r.token = AuthToken /\ q.r.readable
Parses(q) == WellFormedEnvelope(q.r.body)

\* the goroutines that have not yet called the callback
Spawned == { t \in Running : t.pc = "spawned" }
SpawnedCount == BagCardinality(tasks) - BagCardinality(tasks (-) [t \in Spawned |-> MaxTasks])

\* the callback the handler starts for the request just served
CallbackOf(q) ==
    IF q.origin = "uac" THEN NewTask("uac", q.r.body.event, NoHubEvent)
    ELSE NewTask("hubitat", NoUacEvent, q.r.body.content)

\* C4: for every request on either endpoint the event callback is started
\* exactly once if the request authenticates (controller: token and body
\* signature; hub: token) and parses, and never otherwise; a rejected request
\* causes no outbound call and leaves the outstanding-work counter alone.
C4_CallbackIffAccepted ==
    [][ /\ inbox' # inbox =>
             IF Authenticates(req') /\ Parses(req')
             THEN /\ wg' = wg + 1
                  /\ tasks' = tasks (+) SetToBag({CallbackOf(req')})
                  /\ UNCHANGED <<hub, uacRule, uacRelay>>
             ELSE UNCHANGED <<wg, tasks, hub, uacRule, uacRelay>>
        /\ inbox' = inbox => SpawnedCount' <= SpawnedCount ]_vars

\* an authentic, well-formed request was answered 200 and its callback is
\* about to run
C4_Witness ==
    /\ req # NoRequest /\ req.origin = "uac"
    /\ Authenticates(req) /\ Parses(req)
    /\ resp.status = 200 /\ wg >= 1
    /\ CallbackOf(req) \in Running

\* C5: on the controller endpoint the status is 403 on a token mismatch; else
\* 400 on an unreadable body; else 401 on a signature failure; else 400 for a
\* body whose signature verifies but which is not well-formed JSON for the
\* envelope (never 401); else 200.
C5_StatusOrder ==
    (req # NoRequest /\ req.origin = "uac") =>
        resp.status =
            IF req.r.token # AuthToken THEN 403
            ELSE IF ~req.r.readable THEN 400
            ELSE IF validatePayload(req.r.body, req.r.sig, RegisteredSecret) # NoError THEN 401
            ELSE IF ~WellFormedEnvelope(req.r.body) THEN 400
            ELSE 200

(***************************************************************************)
(* pkg/utils: StringSlicesEqual and StringMapsEqual.                       *)
(***************************************************************************)
\* longest slice drawn for the helpers
MaxLen == 3

\* the strings the slices and maps are built from
EqElems == {"a", "b"}
EqKeys  == {"k1", "k2"}

\* counts := make(map[string]int): a map is a function from the keys it holds,
\* and a missing key reads as 0
EmptyCounts == <<>>
CountAt(counts, key) == IF key \in DOMAIN counts THEN counts[key] ELSE 0
CountSet(counts, key, n) ==
    [k \in DOMAIN counts \cup {key} |-> IF k = key THEN n ELSE counts[k]]

RECURSIVE CountUp(_, _)
\* for _, val := range a { counts[val]++ }
CountUp(a, counts) ==
    IF a = <<>> THEN counts
    ELSE CountUp(Tail(a), CountSet(counts, Head(a), CountAt(counts, Head(a)) + 1))

RECURSIVE CountDown(_, _)
\* for _, val := range b { counts[val]--; if counts[val] < 0 { return false } }
CountDown(b, counts) ==
    IF b = <<>> THEN TRUE
    ELSE LET c == CountSet(counts, Head(b), CountAt(counts, Head(b)) - 1)
         IN  IF c[Head(b)] < 0 THEN FALSE ELSE CountDown(Tail(b), c)

\* a comparison of the sets of elements
SameElements(a, b) == {a[i] : i \in DOMAIN a} = {b[i] : i \in DOMAIN b}

StringSlicesEqual(a, b) ==
    IF Len(a) # Len(b) THEN FALSE
    ELSE CountDown(b, CountUp(a, EmptyCounts))

\* a Go map is a function from the keys it holds
StringMapsEqual(a, b) ==
    IF Cardinality(DOMAIN a) # Cardinality(DOMAIN b) THEN FALSE
    ELSE \A key \in DOMAIN a : key \in DOMAIN b /\ a[key] = b[key]

EqSlices == UNION { [1..n -> EqElems] : n \in 0..MaxLen }
EqMaps   == UNION { [K -> EqElems] : K \in SUBSET EqKeys }

InitEq ==
    /\ eqIn \in [a : EqSlices, b : EqSlices, ma : EqMaps, mb : EqMaps]
    /\ eqOut = NoEqOutput
    /\ sigIn = NoSigInput /\ sigOut = "idle"
    /\ tokenName = MiddlewareName
    /\ hub = HubAtRest
    /\ ControllerAtRest
    /\ tasks = EmptyBag
    /\ wg = 0
    /\ resp = NoResponse
    /\ inbox = <<>>
    /\ req = NoRequest
    /\ webhooks = <<>>
    /\ reg = NoReg
    /\ proc = NoProc
    /\ poll = NoPoll
    /\ uacDps = [d \in DoorIDs |-> "close"]

\* both helpers applied to the drawn input
Compare ==
    /\ ~eqOut.done
    /\ eqOut' = [done |-> TRUE, slices |-> StringSlicesEqual(eqIn.a, eqIn.b),
                 maps |-> StringMapsEqual(eqIn.ma, eqIn.mb)]
    /\ UNCHANGED <<sigIn, sigOut, inbox, req, sysVars, eqIn, webhooks, reg, proc, poll, uacDps>>

NextEq == Compare

SpecEq == InitEq /\ [][NextEq]_vars

\* occurrences of x in the slice
Occurrences(seq, x) == Cardinality({ i \in DOMAIN seq : seq[i] = x })

\* C12: StringSlicesEqual(a, b) is true exactly when a and b are equal as
\* multisets, and StringMapsEqual(a, b) exactly when the maps have the same
\* keys with equal values; [a,b] equals [b,a], [a,a,b] does not equal [a,b].
C12_MultisetAndMapEquality ==
    eqOut.done =>
        /\ eqOut.slices = (\A x \in EqElems : Occurrences(eqIn.a, x) = Occurrences(eqIn.b, x))
        /\ eqOut.maps = (eqIn.ma = eqIn.mb)
        /\ (eqIn.a = <<"a", "b">> /\ eqIn.b = <<"b", "a">>) => eqOut.slices
        /\ (eqIn.a = <<"a", "a", "b">> /\ eqIn.b = <<"a", "b">>) => ~eqOut.slices

\* two slices with the same elements in different multiplicities were compared
\* and found different
C12_Witness ==
    /\ eqOut.done
    /\ eqIn.a = <<"a", "a", "b">> /\ eqIn.b = <<"b", "b", "a">>
    /\ ~eqOut.slices

(***************************************************************************)
(* Webhook registration: assertUacWebhookExists and the controller's       *)
(* endpoint list.                                                          *)
(***************************************************************************)
\* endpoints the controller lists before the middleware starts
MaxHooks == 2

WebhookName == "unifi-access-hubitat-middleware"

\* newWebhook: the desired specification
NewWebhook ==
    [Name     |-> WebhookName,
     Endpoint |-> "https://middleware/webhook/uac",
     Events   |-> <<"access.device.dps_status", "access.door.unlock">>,
     Headers  |-> [Authorization |-> AuthToken]]

EventKinds == {"access.device.dps_status", "access.door.unlock"}

\* what an endpoint registered earlier may hold in each field
HookNames     == {WebhookName, "other-client"}
HookEndpoints == {NewWebhook.Endpoint, "https://old-host/webhook/uac"}
HookEvents ==
    { NewWebhook.Events,
      <<"access.door.unlock", "access.device.dps_status">>,
      <<"access.door.unlock", "access.door.unlock">> }
HookHeaders ==
    { NewWebhook.Headers,
      [Authorization |-> "wrong-token"],
      [k \in {"Authorization", "X-Extra"} |-> AuthToken] }

\* the secret the controller keeps for an endpoint and returns with it
SecretOf(name) == IF name = WebhookName THEN RegisteredSecret ELSE "whsec-2"

\* the desired endpoint, and endpoints that differ from it in at most two fields
HookFields ==
    { f \in [Name : HookNames, Endpoint : HookEndpoints, Events : HookEvents,
              Headers : HookHeaders] :
        Cardinality({ k \in {"Name", "Endpoint", "Events", "Headers"} :
                        f[k] # NewWebhook[k] }) <= 1
        \/ (f.Name # NewWebhook.Name /\ f.Endpoint # NewWebhook.Endpoint
              /\ f.Events = NewWebhook.Events /\ f.Headers = NewWebhook.Headers) }

\* the endpoint the controller stores for these fields under this id
Stored(id, f) ==
    [ID |-> id, Name |-> f.Name, Endpoint |-> f.Endpoint, Events |-> f.Events,
     Headers |-> f.Headers, Secret |-> SecretOf(f.Name)]

\* the lists the controller may hold: ids are given in order of creation
HookLists ==
    UNION { { [i \in 1..n |-> Stored(i, fs[i])] : fs \in [1..n -> HookFields] } :
            n \in 0..MaxHooks }

NoWebhook == Stored(0, [Name |-> "", Endpoint |-> "", Events |-> <<>>, Headers |-> <<>>])

\* a comparison that ignores the event list and the headers
EndpointDiffers(webhook, new) == webhook.Endpoint # new.Endpoint

\* the test of lines 124-125: the registered endpoint differs from the desired one
FieldsDiffer(webhook, new) ==
    \/ webhook.Endpoint # new.Endpoint
    \/ ~StringSlicesEqual(webhook.Events, new.Events)
    \/ ~StringMapsEqual(webhook.Headers, new.Headers)

RECURSIVE ScanWebhooks(_)
\* the loop over the fetched endpoints and the create that follows it: the
\* call to make, and the endpoint returned when no call is needed
ScanWebhooks(list) ==
    IF list = <<>> THEN [kind |-> "create", id |-> 0, found |-> NoWebhook]
    ELSE IF Head(list).Name = NewWebhook.Name
    THEN IF FieldsDiffer(Head(list), NewWebhook)
         THEN [kind |-> "update", id |-> Head(list).ID, found |-> Head(list)]
         ELSE [kind |-> "none", id |-> Head(list).ID, found |-> Head(list)]
    ELSE ScanWebhooks(Tail(list))

\* reg: pc "fetch", "mutate" or "done"; list is what was fetched, plan the
\* outcome of the scan, calls the mutating calls of this run, err whether the
\* run returned an error, result the endpoint returned, run the number of the
\* run, first the plan of the run before
StartReg(run, first) ==
    [pc |-> "fetch", list |-> <<>>, kind |-> "", id |-> 0, calls |-> 0, err |-> FALSE,
     result |-> NoWebhook, run |-> run, first |-> first]

regRest == <<sigIn, sigOut, inbox, req, sysVars, eqIn, eqOut, proc, poll, uacDps>>

\* FetchWebhookEndpoints, which may fail, and the scan of its result
RegFetch ==
    /\ reg.pc = "fetch"
    /\ \/ reg' = [reg EXCEPT !.pc = "done", !.err = TRUE]
       \/ LET plan == ScanWebhooks(webhooks)
          IN  reg' = IF plan.kind = "none"
                     THEN [reg EXCEPT !.pc = "done", !.list = webhooks, !.kind = "none",
                                      !.id = plan.id, !.result = plan.found]
                     ELSE [reg EXCEPT !.pc = "mutate", !.list = webhooks,
                                      !.kind = plan.kind, !.id = plan.id]
    /\ UNCHANGED <<webhooks, regRest>>

\* UpdateWebhookEndpoint or AddWebhookEndpoint: the controller applies the call
\* and returns the endpoint, or the call fails
RegMutate ==
    /\ reg.pc = "mutate"
    /\ \/ /\ reg' = [reg EXCEPT !.pc = "done", !.calls = @ + 1, !.err = TRUE]
          /\ UNCHANGED webhooks
       \/ LET i   == IF reg.kind = "create" THEN Len(webhooks) + 1
                     ELSE CHOOSE k \in DOMAIN webhooks : webhooks[k].ID = reg.id
              new == Stored(IF reg.kind = "create" THEN Len(webhooks) + 1 ELSE reg.id,
                            NewWebhook)
          IN  /\ webhooks' = [k \in 1..(IF reg.kind = "create" THEN i ELSE Len(webhooks)) |->
                                 IF k = i THEN new ELSE webhooks[k]]
              /\ reg' = [reg EXCEPT !.pc = "done", !.calls = @ + 1, !.result = new]
    /\ UNCHANGED regRest

\* the assertion is run again right after a run that succeeded
RegAgain ==
    /\ reg.pc = "done" /\ ~reg.err /\ reg.run = 1
    /\ reg' = StartReg(2, reg.kind)
    /\ UNCHANGED <<webhooks, regRest>>

InitReg ==
    /\ webhooks \in HookLists
    /\ reg = StartReg(1, "")
    /\ eqIn = NoEqInput /\ eqOut = NoEqOutput
    /\ sigIn = NoSigInput /\ sigOut = "idle"
    /\ tokenName = MiddlewareName
    /\ hub = HubAtRest
    /\ ControllerAtRest
    /\ tasks = EmptyBag
    /\ wg = 0
    /\ resp = NoResponse
    /\ inbox = <<>>
    /\ req = NoRequest
    /\ proc = NoProc
    /\ poll = NoPoll
    /\ uacDps = [d \in DoorIDs |-> "close"]

NextReg ==
    \/ RegFetch
    \/ RegMutate
    \/ RegAgain

SpecReg == InitReg /\ [][NextReg]_vars

\* positions of the endpoints with the desired name, and the first of them
Named(list) == { i \in DOMAIN list : list[i].Name = WebhookName }
FirstNamed(list) == CHOOSE i \in Named(list) : \A j \in Named(list) : i <= j

\* URL, event multiset or header map is not that of the desired specification
OffSpec(w) ==
    \/ w.Endpoint # NewWebhook.Endpoint
    \/ \E x \in EventKinds : Occurrences(w.Events, x) # Occurrences(NewWebhook.Events, x)
    \/ Len(w.Events) # Len(NewWebhook.Events)
    \/ w.Headers # NewWebhook.Headers

\* C11: for any list of registered endpoints the assertion creates iff no
\* endpoint has the desired name, updates the endpoint of that name in place
\* iff its URL, event multiset or header map differs, and makes no mutating
\* call iff it matches; it makes at most one mutating call, never creates a
\* second endpoint of the desired name, and a run right after a successful
\* run is a no-op.
C11_RegistrationThreeWay ==
    /\ reg.calls <= 1
    /\ reg.kind = "" => reg.calls = 0
    /\ reg.kind # "" =>
          LET L == reg.list
          IN  /\ (reg.kind = "create") = (Named(L) = {})
              /\ (reg.kind = "update") = (Named(L) # {} /\ OffSpec(L[FirstNamed(L)]))
              /\ (reg.kind = "none") = (Named(L) # {} /\ ~OffSpec(L[FirstNamed(L)]))
              /\ reg.kind = "update" => reg.id = L[FirstNamed(L)].ID
              /\ reg.kind = "none" => (reg.calls = 0 /\ reg.pc = "done")
              /\ (reg.kind # "none" /\ reg.pc = "done") => reg.calls = 1
              /\ (reg.pc = "done" /\ ~reg.err /\ reg.kind = "create")
                    => (Cardinality(Named(webhooks)) = 1 /\ Len(webhooks) = Len(L) + 1)
              /\ (reg.pc = "done" /\ ~reg.err /\ reg.kind = "update")
                    => /\ Len(webhooks) = Len(L)
                       /\ \A i \in DOMAIN L :
                             IF i = FirstNamed(L)
                             THEN webhooks[i].ID = L[i].ID /\ ~OffSpec(webhooks[i])
                             ELSE webhooks[i] = L[i]
              /\ reg.run = 2 => reg.kind = "none"

\* the second run, right after a run that updated the endpoint, made no call
C11_Witness ==
    /\ reg.run = 2 /\ reg.pc = "done" /\ ~reg.err
    /\ reg.first = "update" /\ reg.kind = "none" /\ reg.calls = 0


(***************************************************************************)
(* The process: main, the listener goroutine, pollUacStates.               *)
(***************************************************************************)
\* visits of the tick loop the model records in poll.log
MaxVisits == 2

\* what neither main nor the reconciler nor the controller's doors change
still == <<sigIn, sigOut, eqIn, eqOut, webhooks, reg, tokenName, uacRelay, tasks, resp, req>>

Alive == proc.pc # "exited"

\* main that takes no notice of the error of assertUacWebhookExists
startRegardless(err) == "start"

\* main after assertUacWebhookExists has returned
afterRegister(err) == IF err THEN "exit" ELSE "start"

\* pollUacStates and the startup loop position p at the first element of
\* list that needs a call to the hub; an unknown door ends the function
RECURSIVE SnapNext(_, _)
SnapNext(p, list) ==
    IF list = <<>> THEN [p EXCEPT !.pc = "wait", !.rest = <<>>]
    ELSE LET d == Head(list)
             i == getDoorByUacID(d.ID)
         IN  IF i = 0 THEN [p EXCEPT !.pc = "done", !.rest = list]
             ELSE IF d.DoorPositionStatus = "open"
             THEN [p EXCEPT !.pc = "snapinfo", !.rest = list,
                            !.op = "AssertDoorContactOpened",
                            !.dev = Doors[i].HubitatContactID]
             ELSE IF d.DoorPositionStatus = "close"
             THEN [p EXCEPT !.pc = "snapinfo", !.rest = list,
                            !.op = "AssertDoorContactClosed",
                            !.dev = Doors[i].HubitatContactID]
             ELSE SnapNext(p, Tail(list))

\* the tick loop positions p at the first door from index i on that has a
\* lock; past the last door the reconciler is back at the select
RECURSIVE TickNext(_, _)
TickNext(p, i) ==
    IF i > Len(Doors) THEN [p EXCEPT !.pc = "wait", !.i = 0]
    ELSE IF Doors[i].HubitatLockID = NoLock THEN TickNext(p, i + 1)
    ELSE [p EXCEPT !.pc = "query", !.i = i]

\* a map that has lost what it held
StateUnset(states, key) == ""

\* doorLockRuleStates, a Go map: a missing key reads as ""
StateAt(states, key) == IF key \in DOMAIN states THEN states[key] ELSE ""
StateSet(states, key, v) ==
    [k \in DOMAIN states \cup {key} |-> IF k = key THEN v ELSE states[k]]

\* a translation that takes every rule but keep_unlock for the default one
lockRuleStateLenient(type) == IF type = "keep_unlock" THEN "unlocked" ELSE "locked"

\* currDoorLockRuleState of a rule type; "" stands for the branch that skips
lockRuleState(type) ==
    IF type = "keep_unlock" THEN "unlocked" ELSE IF type = "" THEN "locked" ELSE ""

\* the cases of the select that are ready
selectTickFirst(cancelled, tickReady) ==
    IF tickReady THEN {"tick"} ELSE IF cancelled THEN {"done"} ELSE {}

selectReady(cancelled, tickReady) ==
    (IF cancelled THEN {"done"} ELSE {}) \cup (IF tickReady THEN {"tick"} ELSE {})

\* positions the controller reports for a door
Positions == {"open", "close", "none"}

\* the door lists FetchAllDoors may return: the controller's doors in any
\* order, configured here or not, with their positions
RECURSIVE Orderings(_)
Orderings(S) ==
    IF S = {} THEN {<<>>}
    ELSE UNION { { <<x>> \o q : q \in Orderings(S \ {x}) } : x \in S }

DoorLists ==
    UNION { { [k \in DOMAIN q |->
                 [ID |-> q[k],
                  DoorPositionStatus |-> IF q[k] \in DoorIDs THEN uacDps[q[k]] ELSE "close"]] :
              q \in Orderings(S) } : S \in SUBSET UacLocs }

\* the configured doors of a list whose position the startup loop asserts
Owed(list) ==
    { list[k].ID : k \in { j \in DOMAIN list :
                             /\ list[j].ID \in DoorIDs
                             /\ list[j].DoorPositionStatus \in {"open", "close"} } }

Snapped(p) == [p EXCEPT !.snapped = @ \cup {Head(p.rest).ID}]

Logged(p, read, asserted) ==
    IF Len(p.log) < MaxVisits
    THEN [p EXCEPT !.log = Append(@, [door |-> Doors[p.i].UacID, read |-> read,
                                      asserted |-> asserted])]
    ELSE p

\* an iteration that records nothing
NotRecorded(p) == p

\* doorLockRuleStates[door.UacID] = currDoorLockRuleState
Recorded(p) == [p EXCEPT !.states = StateSet(@, Doors[p.i].UacID, p.cur)]

\* the deferred wg.Done() of pollUacStates
PollDone == wg' = IF poll'.pc = "done" THEN wg - 1 ELSE wg

\* main from the return of assertUacWebhookExists to <-osSignals: exit with
\* status 1, or start the listener goroutine and the reconciler
MainRegistered ==
    /\ proc.pc = "register" /\ reg.pc = "done"
    /\ IF afterRegister(reg.err) = "exit"
       THEN /\ proc' = [proc EXCEPT !.pc = "exited", !.code = 1]
            /\ UNCHANGED <<poll, wg>>
       ELSE /\ proc' = [proc EXCEPT !.pc = "waiting", !.listener = "starting"]
            /\ poll' = [NoPoll EXCEPT !.pc = "fetch"]
            /\ wg' = wg + 1
    /\ UNCHANGED <<still, hub, uacRule, inbox, uacDps>>

\* the listener goroutine: the handlers are built with *uacWebHook.Secret and
\* http.ListenAndServe serves them, or fails and ends the process
ListenerUp ==
    /\ Alive /\ proc.listener = "starting"
    /\ \/ proc' = [proc EXCEPT !.listener = "up", !.secret = reg.result.Secret]
       \/ proc' = [proc EXCEPT !.listener = "off", !.pc = "exited", !.code = 1]
    /\ UNCHANGED <<still, hub, uacRule, inbox, uacDps, poll, wg>>

\* a request reaches the port while the process listens on it
Serve == Alive /\ proc.listener = "up" /\ Deliver

\* FetchAllDoors, which may fail, and the startup loop up to its first call
PollFetchDoors ==
    /\ Alive /\ poll.pc = "fetch"
    /\ \/ poll' = [poll EXCEPT !.pc = "wait"]
       \/ \E list \in DoorLists :
            poll' = SnapNext([poll EXCEPT !.ok = TRUE, !.owed = Owed(list)], list)
    /\ PollDone
    /\ UNCHANGED <<still, hub, uacRule, inbox, uacDps, proc>>

\* AssertDoorContactOpened/Closed of the startup loop, first half
PollSnapInfo ==
    /\ Alive /\ poll.pc = "snapinfo"
    /\ \/ poll' = SnapNext(Snapped(poll), Tail(poll.rest))
       \/ \E info \in DeviceInfos(poll.dev) :
            LET a == AssertArgs(poll.op)
                d == assertDeviceState(info, a.capability, a.command,
                                       a.attributeName, a.desiredValue)
            IN  poll' = IF d = "send" THEN [poll EXCEPT !.pc = "snapsend"]
                        ELSE SnapNext(Snapped(poll), Tail(poll.rest))
    /\ PollDone
    /\ UNCHANGED <<still, hub, uacRule, inbox, uacDps, proc>>

\* second half: sendDeviceCommand
PollSnapSend ==
    /\ Alive /\ poll.pc = "snapsend"
    /\ \/ hub' = [hub EXCEPT ![poll.dev] = CommandEffect(AssertArgs(poll.op).command)]
       \/ UNCHANGED hub
    /\ poll' = SnapNext(Snapped(poll), Tail(poll.rest))
    /\ PollDone
    /\ UNCHANGED <<still, uacRule, inbox, uacDps, proc>>

\* five seconds have passed: the ticker puts a value into ticker.C
Tick ==
    /\ Alive /\ poll.pc \in {"wait", "query", "lockinfo", "locksend"}
    /\ ~poll.tickReady
    /\ poll' = [poll EXCEPT !.tickReady = TRUE]
    /\ UNCHANGED <<still, hub, uacRule, inbox, uacDps, proc, wg>>

\* the select takes case <-ctx.Done()
PollExit ==
    /\ Alive /\ poll.pc = "wait"
    /\ "done" \in selectReady(proc.cancelled, poll.tickReady)
    /\ poll' = [poll EXCEPT !.pc = "done"]
    /\ PollDone
    /\ UNCHANGED <<still, hub, uacRule, inbox, uacDps, proc>>

\* the select takes case <-ticker.C and the loop goes to its first door
PollTick ==
    /\ Alive /\ poll.pc = "wait"
    /\ "tick" \in selectReady(proc.cancelled, poll.tickReady)
    /\ poll' = TickNext([poll EXCEPT !.tickReady = FALSE], 1)
    /\ UNCHANGED <<still, hub, uacRule, inbox, uacDps, proc, wg>>

\* GetDoorLockRule of the door at hand, which may fail, and the comparison
\* with the recorded state
PollQuery ==
    /\ Alive /\ poll.pc = "query"
    /\ LET door == Doors[poll.i]
           cur  == lockRuleState(uacRule[door.UacID])
           prev == StateAt(poll.states, door.UacID)
       IN  \/ poll' = TickNext(Logged(poll, "fail", FALSE), poll.i + 1)
           \/ poll' = IF cur = ""
                      THEN TickNext(Logged(poll, "unknown", FALSE), poll.i + 1)
                      ELSE IF cur # prev
                      THEN [Logged(poll, cur, TRUE) EXCEPT
                               !.pc = "lockinfo", !.cur = cur, !.dev = door.HubitatLockID,
                               !.op = IF cur = "locked" THEN "AssertDoorLockLocked"
                                      ELSE "AssertDoorLockUnlocked"]
                      ELSE TickNext(Logged(poll, cur, FALSE), poll.i + 1)
    /\ UNCHANGED <<still, hub, uacRule, inbox, uacDps, proc, wg>>

\* AssertDoorLockLocked/Unlocked, first half; the record is updated whatever
\* the assertion returns
PollLockInfo ==
    /\ Alive /\ poll.pc = "lockinfo"
    /\ \/ poll' = TickNext(Recorded(poll), poll.i + 1)
       \/ \E info \in DeviceInfos(poll.dev) :
            LET a == AssertArgs(poll.op)
                d == assertDeviceState(info, a.capability, a.command,
                                       a.attributeName, a.desiredValue)
            IN  poll' = IF d = "send" THEN [poll EXCEPT !.pc = "locksend"]
                        ELSE TickNext(Recorded(poll), poll.i + 1)
    /\ UNCHANGED <<still, hub, uacRule, inbox, uacDps, proc, wg>>

PollLockSend ==
    /\ Alive /\ poll.pc = "locksend"
    /\ \/ hub' = [hub EXCEPT ![poll.dev] = CommandEffect(AssertArgs(poll.op).command)]
       \/ UNCHANGED hub
    /\ poll' = TickNext(Recorded(poll), poll.i + 1)
    /\ UNCHANGED <<still, uacRule, inbox, uacDps, proc, wg>>

\* main from the signal to wg.Wait: cancelPoll, wg.Add(1) and the goroutine
\* of HServer.Shutdown
MainSignal ==
    /\ proc.pc = "waiting"
    /\ proc' = [proc EXCEPT !.pc = "stopping", !.cancelled = TRUE, !.shut = "running"]
    /\ wg' = wg + 1
    /\ UNCHANGED <<still, hub, uacRule, inbox, uacDps, poll>>

\* HServer.Shutdown: HServer has no listener and no connection, the call
\* returns at once; the server of http.ListenAndServe is another value
ShutdownRun ==
    /\ Alive /\ proc.shut = "running"
    /\ proc' = [proc EXCEPT !.shut = "done", !.hserver = "closed"]
    /\ wg' = wg - 1
    /\ UNCHANGED <<still, hub, uacRule, inbox, uacDps, poll>>

\* wg.Wait returns
MainWait ==
    /\ proc.pc = "stopping" /\ wg = 0
    /\ proc' = [proc EXCEPT !.pc = "returning"]
    /\ UNCHANGED <<still, hub, uacRule, inbox, uacDps, poll, wg>>

\* main logs and returns: the process ends with status 0
MainExit ==
    /\ proc.pc = "returning"
    /\ proc' = [proc EXCEPT !.pc = "exited", !.code = 0]
    /\ UNCHANGED <<still, hub, uacRule, inbox, uacDps, poll, wg>>

\* a door of the controller moves and the controller sends the webhook of it
DpsRequest(d, position) ==
    [origin |-> "uac",
     r |-> AuthenticUacRequest(
               [json |-> "object",
                event |-> [NoUacEvent EXCEPT !.event = "access.device.dps_status",
                                             !.dataOK = TRUE, !.loc = d,
                                             !.eventType = "dps_change",
                                             !.status = position]])]

DoorMoves ==
    /\ inbox = <<>>
    /\ \E d \in DoorIDs, position \in {"open", "close"} :
         /\ uacDps[d] # position
         /\ uacDps' = [uacDps EXCEPT ![d] = position]
         /\ inbox' = <<DpsRequest(d, position)>>
    /\ UNCHANGED <<still, hub, uacRule, proc, poll, wg>>

\* someone sets or lifts a lock rule of a door at the controller
RuleChange ==
    /\ \E d \in DoorIDs, type \in RuleTypes :
         /\ getDoorByUacID(d) # 0 /\ Doors[getDoorByUacID(d)].HubitatLockID # NoLock
         /\ uacRule[d] # type
         /\ uacRule' = [uacRule EXCEPT ![d] = type]
    /\ UNCHANGED <<still, hub, inbox, uacDps, proc, poll, wg>>


(***************************************************************************)
(* Startup: registration, then the listener and the reconciler.            *)
(***************************************************************************)
\* main is about to call assertUacWebhookExists; the controller holds any
\* list of endpoints and is about to send the event of a door that opened
InitBoot ==
    /\ webhooks \in HookLists
    /\ reg = StartReg(1, "")
    /\ proc = [NoProc EXCEPT !.pc = "register"]
    /\ poll = NoPoll
    /\ uacDps = [d \in DoorIDs |-> IF d = "door-1" THEN "open" ELSE "close"]
    /\ inbox = <<DpsRequest("door-1", "open")>>
    /\ eqIn = NoEqInput /\ eqOut = NoEqOutput
    /\ sigIn = NoSigInput /\ sigOut = "idle"
    /\ tokenName = MiddlewareName
    /\ hub = HubAtRest
    /\ ControllerAtRest
    /\ tasks = EmptyBag
    /\ wg = 0
    /\ resp = NoResponse
    /\ req = NoRequest

NextBoot ==
    \/ RegFetch
    \/ RegMutate
    \/ MainRegistered
    \/ ListenerUp
    \/ Serve
    \/ PollFetchDoors
    \/ PollSnapInfo
    \/ PollSnapSend
    \/ \E t \in Running : Alive /\ UacStart(t)
    \/ \E t \in Running : Alive /\ HubFetch(t)
    \/ \E t \in Running : Alive /\ HubSend(t)
    \/ \E t \in Running : Alive /\ TaskExit(t)

SpecBoot == InitBoot /\ [][NextBoot]_vars

\* C13: a request is handled only when the registration has returned without
\* error and the handler holds the secret of the endpoint it returned; when
\* the registration fails the process exits with status 1 and neither the
\* listener nor the reconciler is ever started.
C13_ListenerAfterRegistration ==
    /\ (proc.listener # "off" \/ resp # NoResponse \/ poll.pc # "idle")
           => reg.pc = "done" /\ ~reg.err /\ reg.result.Name = WebhookName
    /\ (proc.listener = "up" \/ resp # NoResponse)
           => /\ proc.secret = reg.result.Secret
              /\ proc.secret = RegisteredSecret
    /\ (reg.pc = "done" /\ reg.err)
           => /\ proc.listener = "off" /\ poll.pc = "idle" /\ resp = NoResponse
              /\ proc.pc \in {"register", "exited"}
              /\ proc.pc = "exited" => proc.code = 1

\* the registration updated the endpoint and the listener has answered an
\* event of the controller with 200
C13_Witness ==
    /\ reg.kind = "update" /\ ~reg.err
    /\ proc.listener = "up"
    /\ resp.status = 200


(***************************************************************************)
(* The reconciler from its start to its end, and the shutdown of main.     *)
(***************************************************************************)
\* main waits for a signal: the listener is up, pollUacStates has just been
\* started; the doors are closed, the lock rule of a door with a lock is any
Started ==
    [NoProc EXCEPT !.pc = "waiting", !.listener = "up", !.secret = RegisteredSecret]

InitPoll ==
    /\ proc = Started
    /\ poll = [NoPoll EXCEPT !.pc = "fetch"]
    /\ wg = 1
    /\ uacDps = [d \in DoorIDs |-> "close"]
    /\ uacRule \in [DoorIDs -> RuleTypes]
    /\ \A i \in DOMAIN Doors : Doors[i].HubitatLockID = NoLock => uacRule[Doors[i].UacID] = ""
    /\ uacRelay = [d \in DoorIDs |-> "lock"]
    /\ hub = HubAtRest
    /\ webhooks = <<>> /\ reg = NoReg
    /\ inbox = <<>>
    /\ eqIn = NoEqInput /\ eqOut = NoEqOutput
    /\ sigIn = NoSigInput /\ sigOut = "idle"
    /\ tokenName = MiddlewareName
    /\ tasks = EmptyBag
    /\ resp = NoResponse
    /\ req = NoRequest

NextPoll ==
    \/ PollFetchDoors
    \/ PollSnapInfo
    \/ PollSnapSend
    \/ Tick
    \/ PollExit
    \/ PollTick
    \/ PollQuery
    \/ PollLockInfo
    \/ PollLockSend
    \/ RuleChange
    \/ MainSignal
    \/ ShutdownRun
    \/ MainWait
    \/ MainExit

SpecPoll == InitPoll /\ [][NextPoll]_vars

\* every call of the reconciler returns (the clients' requests time out), a
\* select with a ready case does not block, and a select whose case
\* <-ctx.Done() is ready again and again takes it
PollFairness ==
    /\ WF_vars(PollFetchDoors) /\ WF_vars(PollSnapInfo) /\ WF_vars(PollSnapSend)
    /\ WF_vars(PollQuery) /\ WF_vars(PollLockInfo) /\ WF_vars(PollLockSend)
    /\ WF_vars(PollTick)
    /\ SF_vars(PollExit)

SpecPollFair == SpecPoll /\ PollFairness


\* the visits of the log that read a rule the reconciler knows
Known(k) == poll.log[k].read \in {"locked", "unlocked"}

\* the state the reconciler has recorded for door d after the first n visits
\* of the log: the read of the last of them that knew the rule of d, "" if
\* there is none
LastKnown(d, n) ==
    LET seen == { j \in 1..n : poll.log[j].door = d /\ Known(j) }
    IN  IF seen = {} THEN ""
        ELSE poll.log[CHOOSE j \in seen : \A m \in seen : m <= j].read

RecordedBefore(k) == LastKnown(poll.log[k].door, k - 1)

\* C14 as stated: the first visit of a door with a lock issues a lock
\* assertion, whatever the query returned.
C14_FirstTickAsserts ==
    \A k \in DOMAIN poll.log :
        (\A j \in 1..(k - 1) : poll.log[j].door # poll.log[k].door)
            => poll.log[k].asserted

\* C14, amended: a visit issues a lock assertion exactly when the query
\* succeeded with a rule the reconciler knows and the state read differs from
\* the one recorded; the first such read of a door asserts once, a visit
\* whose query failed or read an unknown rule, or that read the recorded
\* state again, asserts nothing.
C14_AssertOnFirstKnownRead ==
    /\ \A k \in DOMAIN poll.log :
          poll.log[k].asserted <=> (Known(k) /\ poll.log[k].read # RecordedBefore(k))
    /\ \A k \in DOMAIN poll.log :
          (Known(k) /\ RecordedBefore(k) = "") => poll.log[k].asserted
    /\ (poll.pc = "wait" /\ Len(poll.log) < MaxVisits)
          => \A d \in DoorIDs :
                 IF d \in DOMAIN poll.states
                 THEN poll.states[d] = LastKnown(d, Len(poll.log))
                 ELSE LastKnown(d, Len(poll.log)) = ""

\* the first query of the door failed, the second read the default rule and
\* asserted the lock
C14_Witness ==
    /\ Len(poll.log) = 2
    /\ poll.log[1].read = "fail" /\ ~poll.log[1].asserted
    /\ poll.log[2].read = "locked" /\ poll.log[2].asserted
    /\ poll.pc = "wait"


\* C15: the reconciler is in its loop from its start until cancellation: it
\* has ended only if the cancellation was raised, whatever door list the
\* controller returned at startup.
C15_TicksUntilCancelled == poll.pc = "done" => proc.cancelled

\* the doors with a lock after index i, in the order of appConfig.Doors
LockDoorsAfter(i) == { j \in DOMAIN Doors : j > i /\ Doors[j].HubitatLockID # NoLock }

InIteration(p) == p.pc \in {"query", "lockinfo", "locksend"}

\* one step of the reconciler in or into an iteration: it never ends the
\* function, it leaves a door only for the next door with a lock, and it is
\* back at the select only past the last of them
IterationStep ==
    /\ InIteration(poll) => poll'.pc # "done"
    /\ (InIteration(poll') /\ poll'.i # poll.i)
          => /\ poll'.i \in LockDoorsAfter(poll.i)
             /\ \A j \in LockDoorsAfter(poll.i) : poll'.i <= j
             /\ poll'.pc = "query"
    /\ (InIteration(poll) /\ poll'.pc = "wait") => LockDoorsAfter(poll.i) = {}
    /\ (poll.pc = "wait" /\ poll'.pc = "wait") => poll'.i = poll.i
    /\ (poll'.pc = "done" /\ poll.pc = "wait") => proc.cancelled
    /\ poll.pc = "done" => poll'.pc = "done"

\* C18: once the cancellation is raised the reconciler ends; it takes notice
\* of the cancellation at the select only, an iteration that has begun visits
\* every door with a lock, and none begins after the reconciler has ended.
C18_CancellationAtTickBoundary ==
    /\ proc.cancelled ~> poll.pc = "done"
    /\ [][IterationStep]_vars

\* the reconciler has ended on the cancellation after a visit of the loop
C18_Witness ==
    /\ proc.cancelled /\ poll.pc = "done"
    /\ poll.rest = <<>>
    /\ poll.log # <<>>


(***************************************************************************)
(* The startup snapshot while the controller reports door positions.       *)
(***************************************************************************)
\* as InitPoll, with doors and contact devices in any state
InitSnap ==
    /\ proc = Started
    /\ poll = [NoPoll EXCEPT !.pc = "fetch"]
    /\ wg = 1
    /\ uacDps \in [DoorIDs -> Positions]
    /\ ControllerAtRest
    /\ hub \in HubStates
    /\ \A d \in HubDevs \ ContactDevs : hub[d] = HubAtRest[d]
    /\ webhooks = <<>> /\ reg = NoReg
    /\ inbox = <<>>
    /\ eqIn = NoEqInput /\ eqOut = NoEqOutput
    /\ sigIn = NoSigInput /\ sigOut = "idle"
    /\ tokenName = MiddlewareName
    /\ tasks = EmptyBag
    /\ resp = NoResponse
    /\ req = NoRequest

\* the doors move one at a time: the event of a move has been dealt with
\* before the next door moves
NextSnap ==
    \/ PollFetchDoors
    \/ PollSnapInfo
    \/ PollSnapSend
    \/ tasks = EmptyBag /\ DoorMoves
    \/ Serve
    \/ \E t \in Running : Alive /\ UacStart(t)
    \/ \E t \in Running : Alive /\ HubFetch(t)
    \/ \E t \in Running : Alive /\ HubSend(t)
    \/ \E t \in Running : Alive /\ TaskExit(t)

SpecSnap == InitSnap /\ [][NextSnap]_vars

\* C16: when the startup loop is over after a door list was fetched, the
\* contact device of every configured door the list reports as open or
\* closed has been asserted, whichever other doors the list holds.
C16_SnapshotAssertsEveryDoor ==
    (poll.ok /\ poll.pc \in {"wait", "done"}) => poll.owed \subseteq poll.snapped

\* the startup loop has the contact assertion of door d at hand or ahead
SnapshotAhead(d) ==
    /\ poll.pc \in {"snapinfo", "snapsend"}
    /\ \E k \in DOMAIN poll.rest :
         /\ poll.rest[k].ID = d
         /\ poll.rest[k].DoorPositionStatus \in {"open", "close"}
         /\ \A j \in 1..k : poll.rest[j].ID \in DoorIDs

\* C17: no goroutine of a door-position event has sent a command to the
\* contact device of a door while the startup loop has the assertion of that
\* door still to make.
C17_SnapshotBeforeWebhook ==
    \A t \in Running :
        (t.origin = "uac" /\ t.hubCmds > 0)
            => \A i \in DOMAIN Doors :
                   Doors[i].HubitatContactID = t.dev => ~SnapshotAhead(Doors[i].UacID)


(***************************************************************************)
(* Shutdown while the controller reports door positions.                   *)
(***************************************************************************)
\* main waits for a signal, the reconciler is at its select after a startup
\* loop without findings; the doors and the lock device are in any state
InitStop ==
    /\ proc = Started
    /\ poll = [NoPoll EXCEPT !.pc = "wait"]
    /\ wg = 1
    /\ uacDps \in [DoorIDs -> {"open", "close"}]
    /\ ControllerAtRest
    /\ hub \in HubStates
    /\ \A d \in HubDevs \ LockDevs : hub[d] = HubAtRest[d]
    /\ webhooks = <<>> /\ reg = NoReg
    /\ inbox = <<>>
    /\ eqIn = NoEqInput /\ eqOut = NoEqOutput
    /\ sigIn = NoSigInput /\ sigOut = "idle"
    /\ tokenName = MiddlewareName
    /\ tasks = EmptyBag
    /\ resp = NoResponse
    /\ req = NoRequest

NextStop ==
    \/ tasks = EmptyBag /\ DoorMoves
    \/ Serve
    \/ \E t \in Running : Alive /\ UacStart(t)
    \/ \E t \in Running : Alive /\ HubFetch(t)
    \/ \E t \in Running : Alive /\ HubSend(t)
    \/ \E t \in Running : Alive /\ TaskExit(t)
    \/ Tick
    \/ PollExit
    \/ PollTick
    \/ PollQuery
    \/ PollLockInfo
    \/ PollLockSend
    \/ MainSignal
    \/ ShutdownRun
    \/ MainWait
    \/ MainExit

SpecStop == InitStop /\ [][NextStop]_vars

\* C19: when the process has ended with status 0 no goroutine of an event is
\* left, and the reconciler and the goroutine of the listener's shutdown
\* have ended.
C19_ExitAfterAllTasks ==
    (proc.pc = "exited" /\ proc.code = 0)
        => /\ tasks = EmptyBag
           /\ poll.pc = "done"
           /\ proc.shut = "done"

\* C20: once the shutdown that main started has completed, no request is
\* accepted any more: no wg.Add(1) of a handler, no new goroutine of an event.
C20_NoRequestAfterShutdown ==
    [][proc.shut = "done"
          => /\ wg' <= wg
             /\ BagCardinality(tasks') <= BagCardinality(tasks)]_vars


(***************************************************************************)
(* Shutdown under load: door-position events keep arriving after the       *)
(* signal.                                                                 *)
(***************************************************************************)
\* main waits for a signal, the reconciler is at its select; everything is
\* at rest
InitDrain ==
    /\ proc = Started
    /\ poll = [NoPoll EXCEPT !.pc = "wait"]
    /\ wg = 1
    /\ uacDps = [d \in DoorIDs |-> "close"]
    /\ ControllerAtRest
    /\ hub = HubAtRest
    /\ webhooks = <<>> /\ reg = NoReg
    /\ inbox = <<>>
    /\ eqIn = NoEqInput /\ eqOut = NoEqOutput
    /\ sigIn = NoSigInput /\ sigOut = "idle"
    /\ tokenName = MiddlewareName
    /\ tasks = EmptyBag
    /\ resp = NoResponse
    /\ req = NoRequest

\* a door moves while no event of that door is being handled
DoorMovesApart ==
    /\ DoorMoves
    /\ \A t \in Running : t.uev.loc # inbox'[1].r.body.event.loc

\* a step of the goroutine that handles the event of door d
DoorTaskStep(d) ==
    \E t \in Running :
        /\ Alive /\ t.uev.loc = d
        /\ \/ UacStart(t)
           \/ HubFetch(t)
           \/ HubSend(t)
           \/ TaskExit(t)

NextDrain ==
    \/ DoorMovesApart
    \/ Serve
    \/ \E d \in DoorIDs : DoorTaskStep(d)
    \/ PollExit
    \/ MainSignal
    \/ ShutdownRun
    \/ MainWait
    \/ MainExit

SpecDrain == InitDrain /\ [][NextDrain]_vars

\* the listener answers a request that has arrived; every goroutine of an
\* event goes on (each outbound call returns within the clients' timeout);
\* HServer.Shutdown and pollUacStates return; wg.Wait returns once the
\* counter is at zero, however short the moment
DrainFairness ==
    /\ WF_vars(Serve)
    /\ \A d \in DoorIDs : WF_vars(DoorTaskStep(d))
    /\ SF_vars(PollExit)
    /\ WF_vars(ShutdownRun)
    /\ SF_vars(MainWait)
    /\ WF_vars(MainExit)

SpecDrainFair == SpecDrain /\ DrainFairness

\* C21: once the signal has been taken, the process eventually ends with
\* status 0.
C21_SignalLeadsToExit ==
    proc.cancelled ~> (proc.pc = "exited" /\ proc.code = 0)


(***************************************************************************)
(* The middleware at work: events of both systems and the reconciler.      *)
(***************************************************************************)
\* someone operates a lock device at the hub, and the hub sends the webhook
UserLocks ==
    /\ inbox = <<>>
    /\ \E d \in LockDevs, v \in {"locked", "unlocked"} :
         /\ hub[d] # v
         /\ hub' = [hub EXCEPT ![d] = v]
         /\ inbox' = <<HubRequest(d, v)>>
    /\ UNCHANGED <<still, uacRule, uacDps, proc, poll, wg>>

\* two queries of the reconciler that failed
FailedVisits ==
    [k \in 1..MaxVisits |-> [door |-> Doors[1].UacID, read |-> "fail", asserted |-> FALSE]]

\* main waits for a signal, the reconciler is at its select and has not yet
\* recorded a lock rule (its queries have failed so far); everything is at
\* rest
InitRun ==
    /\ proc = Started
    /\ poll = [NoPoll EXCEPT !.pc = "wait", !.log = FailedVisits]
    /\ wg = 1
    /\ uacDps = [d \in DoorIDs |-> "close"]
    /\ ControllerAtRest
    /\ hub = HubAtRest
    /\ webhooks = <<>> /\ reg = NoReg
    /\ inbox = <<>>
    /\ eqIn = NoEqInput /\ eqOut = NoEqOutput
    /\ sigIn = NoSigInput /\ sigOut = "idle"
    /\ tokenName = MiddlewareName
    /\ tasks = EmptyBag
    /\ resp = NoResponse
    /\ req = NoRequest

NextRun ==
    \/ UserLocks
    \/ RuleChange
    \/ Serve
    \/ \E t \in Running : HubStart(t)
    \/ \E t \in Running : UacGet(t)
    \/ \E t \in Running : UacPut(t)
    \/ \E t \in Running : TaskExit(t)
    \/ Tick
    \/ PollTick
    \/ PollQuery
    \/ PollLockInfo
    \/ PollLockSend

SpecRun == InitRun /\ [][NextRun]_vars


(***************************************************************************)
(* Two events on their way while the reconciler runs.                      *)
(***************************************************************************)
\* the webhook of the controller for an event
UacRequest(e) ==
    [origin |-> "uac", r |-> AuthenticUacRequest([json |-> "object", event |-> e])]

\* events with a door and a device the configuration has, and events the
\* router cannot place: an unknown kind, an unknown door, an unknown device
WorkRequests ==
    { DpsRequest(Doors[1].UacID, "open"),
      DpsRequest("door-x", "open"),
      UacRequest([NoUacEvent EXCEPT !.event = "access.doorbell.incoming", !.dataOK = TRUE]),
      UacRequest([NoUacEvent EXCEPT !.event = "access.door.unlock", !.dataOK = TRUE,
                                    !.loc = "door-x", !.actorType = "user",
                                    !.actorName = "someone", !.result = "Access Granted"]),
      HubRequest(Doors[1].HubitatLockID, "unlocked"),
      HubRequest("dev-x", "on") }

InitWork ==
    /\ proc = Started
    /\ poll = [NoPoll EXCEPT !.pc = "wait", !.log = FailedVisits]
    /\ wg = 1
    /\ uacDps = [d \in DoorIDs |-> "close"]
    /\ ControllerAtRest
    /\ hub = HubAtRest
    /\ webhooks = <<>> /\ reg = NoReg
    /\ inbox \in { <<a, b>> : a \in WorkRequests, b \in WorkRequests }
    /\ eqIn = NoEqInput /\ eqOut = NoEqOutput
    /\ sigIn = NoSigInput /\ sigOut = "idle"
    /\ tokenName = MiddlewareName
    /\ tasks = EmptyBag
    /\ resp = NoResponse
    /\ req = NoRequest

NextWork ==
    \/ Serve
    \/ \E t \in Running : UacStart(t)
    \/ \E t \in Running : HubFetch(t)
    \/ \E t \in Running : HubSend(t)
    \/ \E t \in Running : HubStart(t)
    \/ \E t \in Running : UacGet(t)
    \/ \E t \in Running : UacPut(t)
    \/ \E t \in Running : TaskExit(t)
    \/ Tick
    \/ PollTick
    \/ PollQuery
    \/ PollLockInfo
    \/ PollLockSend

SpecWork == InitWork /\ [][NextWork]_vars

\* the goroutines that a step has marked as failed
NewlyFailed ==
    { u \in BagToSet(tasks') : u.failed /\ CopiesIn(u, tasks') > CopiesIn(u, tasks) }

\* C22: a step in which a call of an event's goroutine fails ends the
\* handler of that goroutine and changes nothing else: not another
\* goroutine, not the reconciler, not main, not the hub or the controller;
\* and the only step a failed goroutine takes afterwards is its end, so it
\* makes no further call.
C22_FailureEndsOnlyItsTask ==
    [][/\ \A u \in NewlyFailed :
            /\ u.pc = "returned"
            /\ \E t \in Running :
                 /\ ~t.failed /\ t.pc \in {"fetch", "send", "get", "put"}
                 /\ u.uev = t.uev /\ u.hev = t.hev
                 /\ tasks' = (tasks (-) SetToBag({t})) (+) SetToBag({u})
            /\ poll' = poll /\ proc' = proc /\ wg' = wg
            /\ hub' = hub /\ uacRule' = uacRule /\ uacRelay' = uacRelay
       /\ \A t \in Running :
            (t.failed /\ CopiesIn(t, tasks') < CopiesIn(t, tasks))
                => /\ tasks' = tasks (-) SetToBag({t})
                   /\ hub' = hub /\ uacRule' = uacRule /\ uacRelay' = uacRelay
                   /\ poll' = poll /\ proc' = proc]_vars

\* a goroutine has failed at a call while another one is about to issue its
\* command and the reconciler is in the middle of an assertion
C22_Witness ==
    /\ Alive
    /\ poll.pc \in {"lockinfo", "locksend"}
    /\ \E t \in Running, u \in Running :
         /\ t.failed /\ t.pc = "returned"
         /\ ~u.failed /\ u.pc \in {"send", "put"}

\* an event the router cannot place: of a kind it has no case for, of a
\* door the registry does not hold, or of a hub device that is in no slot
Unplaced(t) ==
    \/ /\ t.origin = "uac"
       /\ \/ t.uev.event \notin {"access.door.unlock", "access.device.dps_status"}
          \/ t.uev.loc \notin DoorIDs
    \/ /\ t.origin = "hubitat"
       /\ \A i \in DOMAIN Doors :
            t.hev.deviceId \notin {Doors[i].HubitatContactID, Doors[i].HubitatSwitchID}
                                     \cup ({Doors[i].HubitatLockID} \ {NoLock})

\* C23: the goroutine of an accepted event that the router cannot place
\* returns without a call to the hub or to the controller: it never waits
\* in a call, has read no device and no door, and has issued no command.
C23_UnplacedEventDropped ==
    \A t \in Running :
        Unplaced(t) => /\ t.pc \in {"spawned", "returned"}
                       /\ ~t.failed
                       /\ t.op = "" /\ t.dev = ""
                       /\ t.info = NoInfo /\ t.saw = "none"
                       /\ t.hubCmds = 0 /\ t.uacReads = 0 /\ t.uacWrites = 0

\* the handlers of an event of an unknown door and of an event of an unknown
\* hub device have both returned
C23_Witness ==
    \E t \in Running, u \in Running :
        /\ t.origin = "uac" /\ t.uev.event = "access.device.dps_status"
        /\ t.uev.loc \notin DoorIDs /\ t.pc = "returned"
        /\ u.origin = "hubitat" /\ Unplaced(u) /\ u.pc = "returned"


(***************************************************************************)
(* Door-position events: claims C24 and C25.                               *)
(***************************************************************************)
DpsTasks == { t \in UacTasks : t.uev.event = "access.device.dps_status" }

\* the handler has got to an assertion at the hub
AtHub(t) ==
    \/ t.op # "" \/ t.dev # "" \/ t.pc \in {"sleep", "fetch", "send"}
    \/ Fetched(t) \/ t.hubCmds > 0 \/ t.failed

\* C24: the handler of a door-position event gets to an assertion at the hub
\* only if the sub-event type is dps_change, the door is in the registry and
\* the status is open or close; the assertion is then on the contact device
\* of that door, AssertDoorContactOpened for open and AssertDoorContactClosed
\* for close, and whoever returns with such an event has made it; the handler
\* calls nothing at the controller, and no lock or switch device of the hub
\* changes.
C24_DpsAssertsContactOnly ==
    /\ \A t \in DpsTasks :
         LET placed == /\ t.uev.dataOK /\ t.uev.eventType = "dps_change"
                       /\ t.uev.loc \in DoorIDs /\ t.uev.status \in {"open", "close"}
         IN  /\ AtHub(t) => placed
             /\ (placed /\ t.pc # "spawned") => AtHub(t)
             /\ AtHub(t) =>
                  /\ \E i \in DOMAIN Doors :
                       Doors[i].UacID = t.uev.loc /\ t.dev = Doors[i].HubitatContactID
                  /\ t.op = IF t.uev.status = "open" THEN "AssertDoorContactOpened"
                            ELSE "AssertDoorContactClosed"
                  /\ ~t.slept
             /\ t.uacReads = 0 /\ t.uacWrites = 0
    /\ \A d \in LockDevs \cup SwitchDevs : hub[d] = HubAtRest[d]
    /\ ControllerAtRest

\* a close event of a configured door has set the contact device to closed,
\* and an event of another sub-event type has returned
C24_Witness ==
    \E t \in DpsTasks, u \in DpsTasks :
        /\ t.uev.status = "close" /\ t.pc = "returned" /\ ~t.failed
        /\ t.saw = "open" /\ t.hubCmds = 1 /\ hub[t.dev] = "closed"
        /\ u.uev.eventType # "dps_change" /\ u.uev.loc \in DoorIDs /\ u.pc = "returned"

\* C25: an assertion of a contact device to closed that has read the device
\* as closed, on a device with the capability and the command, issues no
\* command.
C25_CloseOnClosedIsSilent ==
    \A t \in DpsTasks :
        ( /\ t.op = "AssertDoorContactClosed" /\ Fetched(t)
          /\ AssertArgs(t.op).capability \in t.info.Capabilities
          /\ AssertArgs(t.op).command \in t.info.Commands
          /\ AttrAtRead(t) = CommandEffect("close") )
            => (t.pc # "send" /\ t.hubCmds = 0)


(***************************************************************************)
(* Hub switch events: claim C26, under SpecHub.                            *)
(***************************************************************************)
\* the door whose switch device the event names, 0 if none
SwitchDoorOf(t) ==
    IF \E i \in DOMAIN Doors : Doors[i].HubitatSwitchID = t.hev.deviceId
    THEN CHOOSE i \in DOMAIN Doors : Doors[i].HubitatSwitchID = t.hev.deviceId
    ELSE 0

\* C26: the handler of a hub event of a door's switch with value "on" reads
\* the door's relay status once and calls unlock exactly when the status it
\* read is not "unlock", at most once; with any other value it makes no call
\* to the controller at all.
C26_SwitchOnUnlocksOnce ==
    \A t \in HubTasks :
        SwitchDoorOf(t) # 0 =>
            /\ t.uacWrites <= 1 /\ t.uacReads <= 1
            /\ t.hev.value # "on"
                   => (t.uacWrites = 0 /\ t.uacReads = 0 /\ t.pc \in {"spawned", "returned"})
            /\ t.hev.value = "on" =>
                   /\ t.pc # "spawned" =>
                        (t.dev = Doors[SwitchDoorOf(t)].UacID /\ t.op = "AssertToggleDoorUnlock")
                   /\ t.uacWrites = 1 => (HasRead(t) /\ t.saw # "unlock" /\ t.put = "unlock")
                   /\ t.pc = "put" => (HasRead(t) /\ t.saw # "unlock")
                   /\ (HasRead(t) /\ t.saw # "unlock" /\ t.pc = "returned") => t.uacWrites = 1
                   /\ (HasRead(t) /\ t.saw = "unlock") => (t.uacWrites = 0 /\ t.pc = "returned")
                   /\ HasRead(t) => (t.saw \in RelayTypes /\ t.uacReads = 1)
                   /\ ~HasRead(t) => t.uacWrites = 0

\* one "on" event found the relay locked and unlocked the door, another one
\* found it unlocked and made no call
C26_Witness ==
    \E t \in HubTasks, u \in HubTasks :
        /\ SwitchDoorOf(t) # 0 /\ t.hev.value = "on" /\ t.pc = "returned" /\ ~t.failed
        /\ t.saw = "lock" /\ t.uacWrites = 1 /\ uacRelay[t.dev] = "unlock"
        /\ SwitchDoorOf(u) # 0 /\ u.hev.value = "on" /\ u.pc = "returned"
        /\ u.saw = "unlock" /\ u.uacWrites = 0


(***************************************************************************)
(* The reconciler's visits: claims C27 and C28, under SpecPoll.            *)
(***************************************************************************)
\* the reconciler leaves GetDoorLockRule of the door at hand
QueryStep == poll.pc = "query" /\ (poll'.pc # poll.pc \/ poll'.i # poll.i)

\* the reconciler goes from the door at hand to the next door with a lock,
\* or to the select past the last of them
MovesOn ==
    IF LockDoorsAfter(poll.i) = {}
    THEN poll'.pc = "wait"
    ELSE /\ poll'.pc = "query"
         /\ poll'.i \in LockDoorsAfter(poll.i)
         /\ \A j \in LockDoorsAfter(poll.i) : poll'.i <= j

\* the visit ends without an assertion and without a change of the record
SkipsDoor ==
    /\ poll'.pc # "lockinfo"
    /\ poll'.states = poll.states
    /\ hub' = hub
    /\ MovesOn

\* the visit just logged
Visit(p) == p.log[Len(p.log)]

Translated(type) == IF type = "keep_unlock" THEN "unlocked" ELSE "locked"

\* the reconciler leaves the assertion of the door at hand
AssertionEnds ==
    poll.pc \in {"lockinfo", "locksend"} /\ poll'.pc \notin {"lockinfo", "locksend"}

\* C28: a visit asserts the lock device when the rule it read translates to
\* a state other than the recorded one; when the assertion ends, with the
\* device set or not, the state read is the recorded one of that door (and
\* the records of the other doors are as before); and a visit that reads the
\* recorded state again issues no assertion, whatever the lock device holds.
C28_RecordFollowsObservation ==
    [][LET d == Doors[poll.i].UacID
       IN  /\ (QueryStep /\ poll'.pc = "lockinfo")
                 => /\ poll'.cur = Translated(uacRule[d])
                    /\ poll'.cur # StateAt(poll.states, d)
                    /\ poll'.states = poll.states
           /\ AssertionEnds
                 => /\ d \in DOMAIN poll'.states /\ poll'.states[d] = poll.cur
                    /\ \A e \in DoorIDs \ {d} :
                         StateAt(poll'.states, e) = StateAt(poll.states, e)
                    /\ MovesOn
           /\ ( /\ QueryStep /\ uacRule[d] \in {"", "keep_unlock"}
                /\ Translated(uacRule[d]) = StateAt(poll.states, d) )
                 => (poll'.pc # "lockinfo" /\ hub' = hub /\ poll'.states = poll.states)]_vars

\* the first visit read keep_unlock and its assertion has not set the lock
\* device; the second visit read keep_unlock again and asserted nothing, and
\* the device is still locked
C28_Witness ==
    /\ Len(poll.log) = 2
    /\ poll.log[1].read = "unlocked" /\ poll.log[1].asserted
    /\ poll.log[2].read = "unlocked" /\ ~poll.log[2].asserted
    /\ StateAt(poll.states, Doors[1].UacID) = "unlocked"
    /\ hub[Doors[1].HubitatLockID] = "locked"
    /\ poll.pc = "wait"


(***************************************************************************)
(* Convergence of the lock device: claim C30, under SpecRunFair.           *)
(***************************************************************************)
\* the listener answers a request that has arrived, every goroutine of an
\* event goes on and every call of the reconciler returns (the clients'
\* requests time out), the ticker fires, and the select takes a tick that
\* is ready
RunFairness ==
    /\ WF_vars(Serve)
    /\ WF_vars(\E t \in Running : HubStart(t) \/ UacGet(t) \/ UacPut(t) \/ TaskExit(t))
    /\ WF_vars(Tick) /\ WF_vars(PollTick)
    /\ WF_vars(PollQuery) /\ WF_vars(PollLockInfo) /\ WF_vars(PollLockSend)

SpecRunFair == SpecRun /\ RunFairness

\* C30: for the door with a lock: if from some point on the lock rule of the
\* controller stays at r, the default rule or keep_unlock, no event of the
\* hub arrives any more, and the reconciler's queries succeed, so that its
\* record holds the translation of r, then from some point on the lock
\* device of the hub holds the translation of r.
C30_LockConverges ==
    \A r \in {"", "keep_unlock"} :
        <>[](/\ uacRule[Doors[1].UacID] = r
             /\ inbox = <<>>
             /\ StateAt(poll.states, Doors[1].UacID) = Translated(r))
            => <>[](hub[Doors[1].HubitatLockID] = Translated(r))


(***************************************************************************)
(* Echoes: the controller reports the unlocks made through its API, the    *)
(* hub reports the changes of its devices. Claim C29, under SpecEchoFair.  *)
(***************************************************************************)
\* the event the controller sends for an unlock made with the middleware's
\* API key: the actor is the key, under the name it was created with
ApiUnlockEvent(d) ==
    [NoUacEvent EXCEPT !.event = "access.door.unlock", !.dataOK = TRUE, !.loc = d,
                       !.actorType = "open-api", !.actorName = tokenName,
                       !.result = "Access Granted"]

\* the event of someone unlocking the door at the reader
UserUnlockEvent(d) ==
    [NoUacEvent EXCEPT !.event = "access.door.unlock", !.dataOK = TRUE, !.loc = d,
                       !.actorType = "user", !.actorName = "someone",
                       !.result = "Access Granted"]

\* HubSend, with the webhook the hub posts when the command has changed the
\* attribute of the device
SendAndEcho(t) ==
    /\ t.pc = "send"
    /\ LET a == AssertArgs(t.op)
           v == CommandEffect(a.command)
           u == [t EXCEPT !.hubCmds = @ + 1,
                          !.stale = (hub[t.dev] = a.desiredValue)]
       IN  \/ /\ hub' = [hub EXCEPT ![t.dev] = v]
              /\ inbox' = IF hub[t.dev] # v THEN Append(inbox, HubRequest(t.dev, v))
                          ELSE inbox
              /\ Step(t, Return(u))
           \/ /\ UNCHANGED <<hub, inbox>>
              /\ Step(t, Fail(u))
    /\ UNCHANGED <<sigIn, sigOut, req, bootVars, tokenName, uacRule, uacRelay, wg, resp>>

\* UacPut, with the webhook the controller posts for an unlock it has made
PutAndEcho(t) ==
    /\ t.pc = "put"
    /\ LET call == MutatingCall(t.op)
           u    == [t EXCEPT !.uacWrites = @ + 1, !.put = call]
       IN  \/ /\ Step(t, Return(u))
              /\ IF call = "unlock"
                 THEN /\ uacRelay' = [uacRelay EXCEPT ![t.dev] = "unlock"]
                      /\ inbox' = Append(inbox, UacRequest(ApiUnlockEvent(t.dev)))
                      /\ UNCHANGED uacRule
                 ELSE /\ uacRule' = [uacRule EXCEPT
                                        ![t.dev] = IF call = "reset" THEN "" ELSE call]
                      /\ UNCHANGED <<uacRelay, inbox>>
           \/ /\ Step(t, Fail(u))
              /\ UNCHANGED <<uacRule, uacRelay, inbox>>
    /\ UNCHANGED <<sigIn, sigOut, req, bootVars, tokenName, hub, wg, resp>>

\* README, Create Virtual Devices: the virtual switch turns itself off after
\* 10 seconds, and the hub posts the webhook of that change
AutoOff ==
    /\ \E d \in SwitchDevs :
         /\ hub[d] = "on"
         /\ hub' = [hub EXCEPT ![d] = "off"]
         /\ inbox' = Append(inbox, HubRequest(d, "off"))
    /\ UNCHANGED <<still, uacRule, uacDps, proc, poll, wg>>

\* the state right after one thing has happened to door 1 while nothing was
\* in flight: its switch was turned on at the hub, it was unlocked at the
\* reader, it was opened, or its lock device was operated at the hub; the
\* devices of the door, its relay and its rule are in any state before
InitEcho ==
    /\ proc = Started
    /\ poll = [NoPoll EXCEPT !.pc = "wait"]
    /\ wg = 1
    /\ tokenName \in TokenNames
    /\ \E h \in HubStates, relay \in RelayTypes, rule \in {"", "keep_unlock"} :
         LET door == Doors[1]
             rest == Doors[2].UacID
         IN  /\ \A d \in HubDevs \ {door.HubitatContactID, door.HubitatLockID,
                                    door.HubitatSwitchID} : h[d] = HubAtRest[d]
             /\ uacRule = (door.UacID :> rule) @@ (rest :> "")
             /\ \/ /\ h[door.HubitatSwitchID] = "off"
                   /\ hub = [h EXCEPT ![door.HubitatSwitchID] = "on"]
                   /\ inbox = <<HubRequest(door.HubitatSwitchID, "on")>>
                   /\ uacRelay = (door.UacID :> relay) @@ (rest :> "lock")
                   /\ uacDps = [d \in DoorIDs |-> "close"]
                \/ /\ hub = h
                   /\ inbox = <<UacRequest(UserUnlockEvent(door.UacID))>>
                   /\ relay = "unlock"
                   /\ uacRelay = (door.UacID :> relay) @@ (rest :> "lock")
                   /\ uacDps = [d \in DoorIDs |-> "close"]
                \/ /\ hub = h
                   /\ inbox = <<DpsRequest(door.UacID, "open")>>
                   /\ uacRelay = (door.UacID :> relay) @@ (rest :> "lock")
                   /\ uacDps = (door.UacID :> "open") @@ (rest :> "close")
                \/ /\ \E v \in {"locked", "unlocked"} :
                        /\ h[door.HubitatLockID] # v
                        /\ hub = [h EXCEPT ![door.HubitatLockID] = v]
                        /\ inbox = <<HubRequest(door.HubitatLockID, v)>>
                   /\ uacRelay = (door.UacID :> relay) @@ (rest :> "lock")
                   /\ uacDps = [d \in DoorIDs |-> "close"]
    /\ webhooks = <<>> /\ reg = NoReg
    /\ eqIn = NoEqInput /\ eqOut = NoEqOutput
    /\ sigIn = NoSigInput /\ sigOut = "idle"
    /\ tasks = EmptyBag
    /\ resp = NoResponse
    /\ req = NoRequest

NextEcho ==
    \/ Serve
    \/ \E t \in Running : UacStart(t)
    \/ \E t \in Running : Sleep(t)
    \/ \E t \in Running : HubFetch(t)
    \/ \E t \in Running : SendAndEcho(t)
    \/ \E t \in Running : HubStart(t)
    \/ \E t \in Running : UacGet(t)
    \/ \E t \in Running : PutAndEcho(t)
    \/ \E t \in Running : TaskExit(t)
    \/ AutoOff

SpecEcho == InitEcho /\ [][NextEcho]_vars

\* the listener answers a request that has arrived, every goroutine of an
\* event goes on (each call returns within the clients' timeout), and the
\* switch turns itself off
EchoFairness ==
    /\ WF_vars(Serve)
    /\ WF_vars(\E t \in Running :
                  \/ UacStart(t) \/ Sleep(t) \/ HubFetch(t) \/ SendAndEcho(t)
                  \/ HubStart(t) \/ UacGet(t) \/ PutAndEcho(t) \/ TaskExit(t))
    /\ WF_vars(AutoOff)

SpecEchoFair == SpecEcho /\ EchoFairness

\* nothing is in flight: no request on its way, no goroutine of an event
Quiet == inbox = <<>> /\ tasks = EmptyBag

====
